---- MODULE Spec2Model ----
(***************************************************************************)
(* Model of the helm-app-operator release reconciliation engine:           *)
(*   - HelmOperatorReconciler.Reconcile  (pkg/helm/controller/reconcile.go)*)
(*   - the per-CR release manager        (pkg/helm/release, manager)       *)
(* against an in-process release store and the tiller release server.      *)
(*                                                                         *)
(* One reconcile of a CR is a short process: Begin (fetch, finalizer add), *)
(* SyncStep, then UninstallStep or PrepareStep followed by InstallStep,    *)
(* UpdateStep or ReconcileStep.  Every step is one manager call together   *)
(* with the status write and the return that follow it in Reconcile.       *)
(***************************************************************************)
EXTENDS Integers, Sequences, FiniteSets, TLC

\* ---------------------------------------------------------------- bounds
\* custom resources of the watched kind (release names are per CR)
NumCRs == 2
\* successive spec values a user gives a CR (each edit moves to the next one)
NumSpecs == 3
\* steps in which a failure is injected (I/O errors, failed CR updates, operator restarts)
MaxFaults == 1

CRs == 1..NumCRs
Specs == 1..NumSpecs

\* ------------------------------------------------------- program constants
finalizer == "uninstall-helm-release"
OtherFinalizer == "other"

PhaseNone == "None"
PhaseApplied == "Applied"
PhaseFailed == "Failed"
ReasonUnknown == "Unknown"
ReasonApplySuccessful == "ApplySuccessful"
ReasonApplyFailed == "ApplyFailed"

DEPLOYED == "DEPLOYED"
FAILED == "FAILED"
SUPERSEDED == "SUPERSEDED"
DELETING == "DELETING"

\* a nil *rpb.Release
NoRelease == [version |-> 0, code |-> "NIL", manifest |-> 0]

\* ------------------------------------------------------------------ state
VARIABLES
    active,    \* the CRs this operator instance is given
    pick,      \* which DEPLOYED version storage.Deployed answers when there are several
    cr,        \* the CRs as stored by the API server
    store,     \* release store: release name (one per CR) -> set of versions
    cluster,   \* the release's objects in the cluster: 0 absent, m = content of manifest m
    pc,        \* position of the in-flight reconcile of each CR
    o,         \* the copy of the CR fetched by the reconcile (with its status)
    stale,     \* the CR changed on the server after the reconcile fetched it
    mgr,       \* the manager of the reconcile: isReleaseInstalled, isUpdateRequired, deployedRelease
    calls,     \* manager operations invoked by the current (or last) reconcile, in order
    result,    \* what the last reconcile returned
    leftFailed,\* an install of the CR failed and left a version in the store
    faults     \* steps with an injected failure so far

\* the objects handed to the release-name function and what it answered
VARIABLES
    objA,      \* a CR's metadata: name, uid, and rest (spec, status, annotations, ...)
    objB,      \* another CR's metadata
    names,     \* the release names computed for objA and objB (NoNames before)
    nilMarshal \* what the uuid package's MarshalBinary answers for the nil UUID

\* the chart handed to the ownership-injecting renderer and what it returned
VARIABLES
    rendered,  \* output of the wrapped engine: file name -> the file's documents
    engineErr, \* the wrapped engine fails
    renderOut  \* what OwnerRefEngine.Render returned (NotRendered before)

\* the watches file handed to the loader and what it returned
VARIABLES
    watchesFile, \* the file at the watches path: readable, parsable, its bindings
    managers     \* what NewManagersFromFile returned (NotLoaded before)

\* one release name's history and the manager operation last called on it
VARIABLES
    history,     \* the versions the release store holds under the release name
    reply        \* the last manager operation: its tiller calls and what it returned

\* two CRs reconciled at the same time against the one release store
VARIABLES
    world,       \* the release store by release name, and each CR's reconcile and status
    start        \* the world the two reconciles started from

\* the periodic reconcile loop and a consumer of its channel
VARIABLES
    loop,        \* the loop's goroutine: position, list being ranged over, its loop variables
    Source,      \* reconcileLoop.Source: the events sent and not yet received
    received     \* what the consumer found in the events it received

\* the reconciler's variables
rvars == <<active, pick, cr, store, cluster, pc, o, stale, mgr, calls, result, leftFailed, faults>>

\* the variables of the function specifications, which the reconciler leaves alone
wvars == <<watchesFile, managers>>
mvars == <<history, reply>>
cvars == <<world, start>>
lvars == <<loop, Source, received>>
fvars == <<objA, objB, names, nilMarshal, rendered, engineErr, renderOut, wvars, mvars, cvars, lvars>>

vars == <<rvars, fvars>>

\* --------------------------------------------------------------- helpers
\* reconcile.go: contains
contains(l, s) == \E i \in 1..Len(l) : l[i] = s

\* a faulty guard that adds the finalizer only to an empty list (C1 must reject it)
NeedsFinalizerWhenEmpty(obj) == ~obj.deleted /\ obj.finalizers = <<>>

\* reconcile.go: the guard of the finalizer-add branch
NeedsFinalizer(obj) == ~obj.deleted /\ ~contains(obj.finalizers, finalizer)

\* a faulty append that puts the finalizer in front of the pending ones (C38 must reject it)
WithFinalizerInFront(l) == <<finalizer>> \o l

\* reconcile.go: finalizers := append(pendingFinalizers, finalizer)
WithFinalizer(l) == Append(l, finalizer)

\* reconcile.go: the loop that drops the finalizer from pendingFinalizers
WithoutFinalizer(l) == SelectSeq(l, LAMBDA f : f # finalizer)

\* types.StatusFor on a CR that has no status yet
EmptyStatus == [phase |-> PhaseNone, reason |-> ReasonUnknown, release |-> NoRelease]

\* types.HelmAppStatus.SetPhase
SetPhase(status, phase, reason) == [status EXCEPT !.phase = phase, !.reason = reason]

\* types.HelmAppStatus.SetRelease
SetRelease(status, release) == [status EXCEPT !.release = release]

\* Reconcile: the status written after a failed phase
StatusOnFailure(status) == SetPhase(status, PhaseFailed, ReasonApplyFailed)

\* a faulty success status that forgets the release (C6 must reject it)
StatusOnApplyWithoutRelease(status, release) ==
    SetPhase(status, PhaseApplied, ReasonApplySuccessful)

\* a faulty success status that records a nil release (C14 must reject it)
StatusOnApplyNilRelease(status, release) ==
    SetRelease(SetPhase(status, PhaseApplied, ReasonApplySuccessful), NoRelease)

\* Reconcile: the status written after a successful install or update
StatusOnApply(status, release) ==
    SetRelease(SetPhase(status, PhaseApplied, ReasonApplySuccessful), release)

\* a faulty uninstall status that keeps the release snapshot (C5 must reject it)
StatusOnUninstallKeepingRelease(status) == SetPhase(status, PhaseNone, ReasonApplySuccessful)

\* Reconcile: the status written after a successful uninstall
StatusOnUninstall(status) ==
    SetRelease(SetPhase(status, PhaseNone, ReasonApplySuccessful), NoRelease)

\* the manifest the chart renders for a spec (two specs may render alike)
Render(spec) == (spec \div 2) + 1

\* the objects a manifest of the chart holds, in manifest order
ObjectOrder == <<"deployment", "service">>
Objects == {ObjectOrder[i] : i \in 1..Len(ObjectOrder)}

\* no object of the release is in the cluster
NoObjects == [x \in Objects |-> 0]

\* every object of manifest m is in the cluster, as the manifest has it
ObjectsOf(m) == [x \in Objects |-> m]

\* the content of an object edited out of band: no manifest renders it
Altered == Render(NumSpecs) + 1

\* a CR that does not exist (the fields are kept so that records stay comparable)
NoCR == [exists |-> FALSE, deleted |-> FALSE, finalizers |-> <<>>, spec |-> 1, status |-> EmptyStatus]

\* nothing returned yet; err names the operation whose error Reconcile returned
NoResult == [ran |-> FALSE, err |-> "nil", requeueAfter |-> FALSE]

FreshManager == [isReleaseInstalled |-> FALSE, isUpdateRequired |-> FALSE, deployedRelease |-> NoRelease]

\* versions of a release in ascending order of revision
RECURSIVE SortByRevision(_)
SortByRevision(rels) ==
    IF rels = {} THEN <<>>
    ELSE LET m == CHOOSE r \in rels : \A q \in rels : r.version <= q.version
         IN <<m>> \o SortByRevision(rels \ {m})

Max(S) == CHOOSE x \in S : \A y \in S : y <= x

\* storage.Last: the highest revision
LastVersion(rels) == Max({r.version : r \in rels})

DeployedOf(rels) == {r \in rels : r.code = DEPLOYED}

\* storage.Deployed: the deployed version (NoRelease: "has no deployed releases");
\* of several, the first or the latest one, as the vendored library has it
Deployed(rels) ==
    IF DeployedOf(rels) = {} THEN NoRelease
    ELSE IF pick = "first"
    THEN CHOOSE r \in DeployedOf(rels) : \A q \in DeployedOf(rels) : r.version <= q.version
    ELSE CHOOSE r \in DeployedOf(rels) : \A q \in DeployedOf(rels) : r.version >= q.version

\* ------------------------------------------------------------------- Init
FreshCR(spec, fins) == [exists |-> TRUE, deleted |-> FALSE, finalizers |-> fins, spec |-> spec, status |-> EmptyStatus]

\* no release name is being computed
NoNames == <<>>
NamesIdle ==
    /\ objA = [name |-> <<"x">>, uid |-> <<>>, rest |-> 0]
    /\ objB = [name |-> <<"x">>, uid |-> <<>>, rest |-> 0]
    /\ names = NoNames
    /\ nilMarshal = "empty"

\* no chart is being rendered
NoFile == <<>>
NotRendered == [done |-> FALSE, nil |-> TRUE, files |-> <<>>, err |-> "none", file |-> NoFile]
RenderIdle ==
    /\ rendered = <<>>
    /\ engineErr = FALSE
    /\ renderOut = NotRendered

\* no watches file is being loaded
NoManagers == [gvk \in {} |-> ""]
NotLoaded == [done |-> FALSE, nil |-> TRUE, m |-> NoManagers, err |-> "none"]
WatchesIdle ==
    /\ watchesFile = [readable |-> FALSE, parsable |-> FALSE, watches |-> <<>>]
    /\ managers = NotLoaded

\* no manager operation was called outside a reconcile
NoReply == [op |-> "none", before |-> {}, tiller |-> <<>>, err |-> "nil",
            release |-> NoRelease, previous |-> NoRelease]
ManagerIdle ==
    /\ history = {}
    /\ reply = NoReply

\* no two reconciles are being raced
NoWorld == [shared |-> <<>>, job |-> <<>>]
RaceIdle ==
    /\ world = NoWorld
    /\ start = NoWorld

\* no reconcile loop was started
NoLoop == [pc |-> "off", ticks |-> 0, Items |-> <<>>, i |-> 0, u |-> <<>>, log |-> <<>>]
LoopIdle ==
    /\ loop = NoLoop
    /\ Source = <<>>
    /\ received = <<>>

InitWith(act) ==
    /\ NamesIdle
    /\ RenderIdle
    /\ WatchesIdle
    /\ ManagerIdle
    /\ RaceIdle
    /\ LoopIdle
    /\ active = act
    /\ pick \in {"first", "latest"}
    /\ cr \in [CRs -> {FreshCR(1, <<>>), FreshCR(1, <<OtherFinalizer>>), NoCR}]
    /\ \A c \in CRs : cr[c].exists <=> c \in act
    /\ store = [c \in CRs |-> {}]
    /\ cluster = [c \in CRs |-> NoObjects]
    /\ pc = [c \in CRs |-> "idle"]
    /\ o = [c \in CRs |-> NoCR]
    /\ stale = [c \in CRs |-> FALSE]
    /\ mgr = [c \in CRs |-> FreshManager]
    /\ calls = [c \in CRs |-> <<>>]
    /\ result = [c \in CRs |-> NoResult]
    /\ leftFailed = [c \in CRs |-> FALSE]
    /\ faults = 0

Init == InitWith({1})

\* ------------------------------------------------- the API server and users
\* the CR as the API server stores it after Update(obj): a deleted object whose
\* last finalizer is gone disappears
Updated(obj, status) ==
    IF obj.deleted /\ obj.finalizers = <<>> THEN NoCR ELSE [obj EXCEPT !.status = status]

\* owner-referenced objects are garbage-collected once the CR is gone
AfterGc(newcr, objs) == IF newcr.exists THEN objs ELSE NoObjects

\* an in-flight reconcile of c now holds an outdated copy
Outdated(c) == [stale EXCEPT ![c] = (pc[c] # "idle")]

Call(op, err) == [op |-> op, err |-> err]

\* the reconcile returns: its manager and fetched copy are dropped
Return(c, err, requeue, trace) ==
    /\ pc' = [pc EXCEPT ![c] = "idle"]
    /\ o' = [o EXCEPT ![c] = NoCR]
    /\ mgr' = [mgr EXCEPT ![c] = FreshManager]
    /\ stale' = [stale EXCEPT ![c] = FALSE]
    /\ calls' = [calls EXCEPT ![c] = trace]
    /\ result' = [result EXCEPT ![c] = [ran |-> TRUE, err |-> err, requeueAfter |-> requeue]]

\* a faulty rule that requeues after an install or update only (C16 must reject it)
RequeueAfterApplyOnly(path) == path \in {"install", "update"}

\* Reconcile: the paths whose final return carries RequeueAfter: ResyncPeriod
RequeueAfterResync(path) == path \in {"install", "update", "reconcile"}

\* one more failure may be injected
Budget == faults < MaxFaults

\* a step is charged once when a failure was injected into it
Charge(injected) ==
    /\ injected => Budget
    /\ faults' = faults + (IF injected THEN 1 ELSE 0)

\* r.updateResource(o, status); ok is the outcome of Client.Update, which cannot
\* succeed on an outdated copy
CanWrite(c, ok) == ok => (~stale[c] /\ cr[c].exists)
WriteFault(c, ok) == ~ok /\ ~stale[c] /\ cr[c].exists
updateResource(c, obj, status, ok, objs) ==
    LET new == IF ok THEN Updated(obj, status) ELSE cr[c]
    IN /\ cr' = [cr EXCEPT ![c] = new]
       /\ cluster' = [cluster EXCEPT ![c] = AfterGc(new, objs)]
WriteCall(ok) == Call("updateResource", IF ok THEN "nil" ELSE "error")

\* a faulty failure path that returns the error without writing the status
\* (C31 must reject it)
FailWithoutWrite(c, err, trace, ok, objs) ==
    /\ ok
    /\ UNCHANGED <<cr, cluster>>
    /\ Return(c, err, FALSE, trace)

\* a faulty failure path that returns the status-write error when the write fails
\* (C18 must reject it)
FailWithWriteError(c, err, trace, ok, objs) ==
    /\ CanWrite(c, ok)
    /\ updateResource(c, o[c], StatusOnFailure(o[c].status), ok, objs)
    /\ Return(c, IF ok THEN err ELSE "write", FALSE, Append(trace, WriteCall(ok)))

\* a failing phase: SetPhase(PhaseFailed, ReasonApplyFailed, err), best-effort
\* updateResource, return the operation's error
FailWith(c, err, trace, ok, objs) ==
    /\ CanWrite(c, ok)
    /\ updateResource(c, o[c], StatusOnFailure(o[c].status), ok, objs)
    /\ Return(c, err, FALSE, Append(trace, WriteCall(ok)))

\* kubectl edit: the user changes the spec
ChangeSpec(c) ==
    /\ cr[c].exists /\ ~cr[c].deleted /\ cr[c].spec + 1 \in Specs
    /\ cr' = [cr EXCEPT ![c].spec = @ + 1]
    /\ stale' = Outdated(c)
    /\ UNCHANGED <<fvars, active, pick, leftFailed, store, cluster, pc, o, mgr, calls, result, faults>>

\* kubectl delete: deletionTimestamp is set, or the CR goes at once when it has no finalizer
DeleteCR(c) ==
    /\ cr[c].exists /\ ~cr[c].deleted
    /\ LET new == IF cr[c].finalizers = <<>> THEN NoCR ELSE [cr[c] EXCEPT !.deleted = TRUE]
       IN /\ cr' = [cr EXCEPT ![c] = new]
          /\ cluster' = [cluster EXCEPT ![c] = AfterGc(new, @)]
    /\ stale' = Outdated(c)
    /\ UNCHANGED <<fvars, active, pick, leftFailed, store, pc, o, mgr, calls, result, faults>>

\* an object of the release is deleted or edited out of band
Drift(c) ==
    /\ \E x \in Objects, content \in {0, Altered} :
         /\ cluster[c][x] \notin {0, Altered}
         /\ cluster' = [cluster EXCEPT ![c][x] = content]
    /\ UNCHANGED <<fvars, active, pick, leftFailed, cr, store, pc, o, stale, mgr, calls, result, faults>>

\* the operator process restarts: the in-memory release store starts empty
\* (main.go: storage.Init(driver.NewMemory())) and in-flight reconciles are lost
Restart ==
    /\ Charge(TRUE)
    /\ store' = [c \in CRs |-> {}]
    /\ pc' = [c \in CRs |-> "idle"]
    /\ o' = [c \in CRs |-> NoCR]
    /\ mgr' = [c \in CRs |-> FreshManager]
    /\ stale' = [c \in CRs |-> FALSE]
    /\ calls' = [c \in CRs |-> <<>>]
    /\ result' = [c \in CRs |-> NoResult]
    /\ leftFailed' = [c \in CRs |-> FALSE]
    /\ UNCHANGED <<fvars, active, pick, cr, cluster>>

\* ------------------------------------------------------------- Reconcile
\* a faulty not-found branch that asks for a requeue (C21 must reject it)
BeginNotFoundRequeue(c) ==
    /\ c \in active /\ pc[c] = "idle" /\ ~cr[c].exists
    /\ Return(c, "nil", TRUE, <<>>)
    /\ UNCHANGED <<fvars, active, pick, leftFailed, cr, store, cluster, faults>>

\* Client.Get reports NotFound: return success, no requeue
BeginNotFound(c) ==
    /\ c \in active /\ pc[c] = "idle" /\ ~cr[c].exists
    /\ Return(c, "nil", FALSE, <<>>)
    /\ UNCHANGED <<fvars, active, pick, leftFailed, cr, store, cluster, faults>>

\* Client.Get fails otherwise: return the error
BeginGetError(c) ==
    /\ c \in active /\ pc[c] = "idle" /\ cr[c].exists
    /\ Charge(TRUE)
    /\ Return(c, "get", FALSE, <<>>)
    /\ UNCHANGED <<fvars, active, pick, leftFailed, cr, store, cluster>>

\* not deleted and no finalizer: append it, update the CR, return
AddFinalizer(c) ==
    /\ c \in active /\ pc[c] = "idle" /\ cr[c].exists
    /\ NeedsFinalizer(cr[c])
    /\ \E ok \in BOOLEAN :
         /\ Charge(WriteFault(c, ok))
         /\ updateResource(c, [cr[c] EXCEPT !.finalizers = WithFinalizer(@)], cr[c].status, ok, cluster[c])
         /\ Return(c, IF ok THEN "nil" ELSE "write", FALSE, <<WriteCall(ok)>>)
    /\ UNCHANGED <<fvars, active, pick, leftFailed, store>>

\* otherwise the reconcile goes on to manager.Sync with the fetched copy
Begin(c) ==
    /\ c \in active /\ pc[c] = "idle" /\ cr[c].exists
    /\ ~NeedsFinalizer(cr[c])
    /\ pc' = [pc EXCEPT ![c] = "sync"]
    /\ o' = [o EXCEPT ![c] = cr[c]]
    /\ mgr' = [mgr EXCEPT ![c] = FreshManager]
    /\ stale' = [stale EXCEPT ![c] = FALSE]
    /\ calls' = [calls EXCEPT ![c] = <<>>]
    /\ result' = [result EXCEPT ![c] = NoResult]
    /\ UNCHANGED <<fvars, active, pick, leftFailed, cr, store, cluster, faults>>

\* ------------------------------------------------------------ manager.Sync
\* storageBackend.Get(name, version) succeeds
Has(rels, version) == \E r \in rels : r.version = version

\* Sync, first half: status.Release is set and Get returned an error, so
\* Create(status.Release) is called (getErr: Get failed although the version is stored)
NeedsCreate(status, rels, getErr) ==
    status.release # NoRelease /\ (getErr \/ ~Has(rels, status.release.version))

\* a faulty cleanup that deletes superseded versions only (C7 must reject it)
SupersededVersions(rels) == {r \in rels : r.code = SUPERSEDED}

\* Sync, second half: the versions the cleanup loop deletes
StaleVersions(rels) == {r \in rels : r.code # DEPLOYED}

\* a faulty test that takes no error for a not-found error (C9 must reject it)
notFoundErrNever(kind) == FALSE

\* notFoundErr: the error kinds Sync ignores from History and Delete
notFoundErr(kind) == kind = "notfound"

\* storageBackend.Delete of the i-th listed stale version: it was deleted by
\* someone else since History answered (gone), or the k-th Delete fails
DeleteOutcome(r, i, k, gone) ==
    IF r \in gone THEN "notfound" ELSE IF i = k THEN "error" ELSE "ok"

\* the cleanup loop over History's answer, from the i-th stale version on
RECURSIVE CleanupFrom(_, _, _, _, _)
CleanupFrom(rels, list, i, k, gone) ==
    IF i > Len(list) THEN [rels |-> rels, failed |-> FALSE]
    ELSE LET out == DeleteOutcome(list[i], i, k, gone)
         IN IF out = "ok" THEN CleanupFrom(rels \ {list[i]}, list, i + 1, k, gone)
            ELSE IF notFoundErr(out) THEN CleanupFrom(rels, list, i + 1, k, gone)
            ELSE [rels |-> rels, failed |-> TRUE]

Cleanup(listed, k, gone) ==
    CleanupFrom(listed \ gone, SortByRevision(StaleVersions(listed)), 1, k, gone)

\* what may go wrong in one Sync: Get fails although the version is stored,
\* Create fails, History fails, History reports not found (some drivers do when
\* nothing is stored), the Delete of the k-th stale version fails, the k-th stale
\* version was deleted by someone else since History answered
SyncFaults == {"none", "get", "create", "history", "notfound", "delete", "gone"}

SyncStep(c) ==
    /\ pc[c] = "sync"
    /\ \E f \in (IF Budget THEN SyncFaults ELSE {"none", "notfound"}),
          k \in 0..Cardinality(store[c]) + 1, ok \in BOOLEAN :
        LET st == o[c].status
            rels0 == store[c]
            create == NeedsCreate(st, rels0, f = "get")
            createFails == create /\ (Has(rels0, st.release.version) \/ f = "create")
            rels1 == IF create /\ ~createFails THEN rels0 \cup {st.release} ELSE rels0
            hist == IF f = "history" THEN "error" ELSE IF f = "notfound" THEN "notfound" ELSE "ok"
            histFails == ~createFails /\ hist # "ok" /\ ~notFoundErr(hist)
            listed == IF hist = "ok" THEN rels1 ELSE {}
            list == SortByRevision(StaleVersions(listed))
            gone == IF f = "gone" THEN {list[k]} ELSE {}
            clean == Cleanup(listed, IF f = "delete" THEN k ELSE 0, gone)
            rels2 == IF createFails \/ histFails \/ hist # "ok" THEN rels1 ELSE clean.rels
            failed == createFails \/ histFails \/ (~createFails /\ hist = "ok" /\ clean.failed)
            trace == (IF st.release = NoRelease THEN <<>>
                      ELSE <<Call("Get", IF f = "get" THEN "error"
                                         ELSE IF Has(rels0, st.release.version) THEN "nil" ELSE "notfound")>>)
                     \o (IF create THEN <<Call("Create", IF createFails THEN "error" ELSE "nil")>> ELSE <<>>)
                     \o (IF f = "notfound" THEN <<Call("History", "notfound")>> ELSE <<>>)
                     \o (IF f = "gone" THEN <<Call("Delete", "notfound")>> ELSE <<>>)
                     \o <<Call("Sync", IF failed THEN "error" ELSE "nil")>>
        IN \* the inputs that make sense in this state
           /\ f = "get" => (st.release # NoRelease /\ Has(rels0, st.release.version))
           /\ f = "create" => (create /\ ~Has(rels0, st.release.version))
           /\ f \in {"history", "notfound", "delete", "gone"} => ~createFails
           /\ f = "notfound" => rels1 = {}
           /\ IF f \in {"delete", "gone"} THEN k \in 1..Len(list) ELSE k = 0
           /\ ~failed => ok
           /\ Charge(f \notin {"none", "notfound"} \/ (failed /\ WriteFault(c, ok)))
           /\ store' = [store EXCEPT ![c] = rels2]
           /\ IF failed
              THEN FailWith(c, "sync", trace, ok, cluster[c])
              ELSE /\ pc' = [pc EXCEPT ![c] = IF o[c].deleted THEN "uninstall" ELSE "prepare"]
                   /\ calls' = [calls EXCEPT ![c] = trace]
                   /\ UNCHANGED <<cr, cluster, o, stale, mgr, result>>
    /\ UNCHANGED <<fvars, active, pick, leftFailed>>

\* ------------------------------------------------------ the release server
Rel(version, code, manifest) == [version |-> version, code |-> code, manifest |-> manifest]

Mark(rels, which, code) ==
    {IF r \in which THEN [r EXCEPT !.code = code] ELSE r : r \in rels}

Latest(rels) == CHOOSE r \in rels : r.version = LastVersion(rels)

\* tiller UninstallRelease with Purge. "ok": every version is purged; "error": it
\* fails before it changed anything; "deleting": the purge fails after the latest
\* version was marked DELETING. Without history there is nothing to uninstall.
TillerUninstallOutcomes(rels) == IF rels = {} THEN {"error"} ELSE {"ok", "error", "deleting"}
TillerUninstall(rels, out) ==
    IF out = "ok" THEN {}
    ELSE IF out = "deleting" THEN Mark(rels, {Latest(rels)}, DELETING)
    ELSE rels

\* tiller InstallRelease. "ok": version 1 is DEPLOYED; "error": it fails with no
\* release in the response; "unrecorded": it fails with a release in the response
\* that was never stored; "recorded": it fails and leaves version 1 FAILED.
\* A name with history is in use: the install is refused.
TillerInstallOutcomes(rels) ==
    IF rels = {} THEN {"ok", "error", "unrecorded", "recorded"} ELSE {"error"}
TillerInstall(rels, manifest, out) ==
    IF out = "ok" THEN {Rel(1, DEPLOYED, manifest)}
    ELSE IF out = "recorded" THEN {Rel(1, FAILED, manifest)}
    ELSE rels

\* tiller UpdateRelease. "ok": the deployed version is SUPERSEDED and
\* the next revision is DEPLOYED; "error": it fails with no release in the
\* response; "recorded": it fails and leaves the next revision FAILED.
TillerUpdateOutcomes(rels) ==
    IF DeployedOf(rels) = {} THEN {"error"} ELSE {"ok", "error", "recorded"}
TillerUpdate(rels, manifest, out) ==
    IF out = "ok"
    THEN Mark(rels, {Deployed(rels)}, SUPERSEDED) \cup {Rel(LastVersion(rels) + 1, DEPLOYED, manifest)}
    ELSE IF out = "recorded" THEN rels \cup {Rel(LastVersion(rels) + 1, FAILED, manifest)}
    ELSE rels

\* tiller RollbackRelease with Force, to the revision before the latest: that
\* revision's manifest becomes a new DEPLOYED revision, every other DEPLOYED
\* version is SUPERSEDED
TillerRollbackOutcomes(rels) ==
    IF rels # {} /\ Has(rels, LastVersion(rels) - 1) THEN {"ok", "error"} ELSE {"error"}
TillerRollback(rels, out) ==
    IF out = "ok"
    THEN LET prev == CHOOSE r \in rels : r.version = LastVersion(rels) - 1
         IN Mark(rels, DeployedOf(rels), SUPERSEDED) \cup {Rel(LastVersion(rels) + 1, DEPLOYED, prev.manifest)}
    ELSE rels

\* ------------------------------------------------------- the uninstall path
\* a faulty test that never skips the uninstall (C19 must reject it)
FinalizerAlwaysFound(finalizers) == FALSE

\* Reconcile, deleted branch: "finalizer not found" among the pending finalizers
FinalizerNotFound(finalizers) == ~contains(finalizers, finalizer)

\* deleted, but the finalizer is not among the fetched finalizers: nothing to do
SkipUninstall(c) ==
    /\ pc[c] = "uninstall"
    /\ FinalizerNotFound(o[c].finalizers)
    /\ Return(c, "nil", FALSE, calls[c])
    /\ UNCHANGED <<fvars, active, pick, leftFailed, cr, store, cluster, faults>>

\* manager.UninstallRelease: "ErrNotFound" without history, else tiller's answer
UninstallError(rels, hist, out) ==
    IF hist # "ok" THEN "error"
    ELSE IF rels = {} THEN "ErrNotFound"
    ELSE IF out = "ok" THEN "nil" ELSE "error"

\* Reconcile returns at once, without a write, on this error of UninstallRelease
UninstallSkipped(err) == err = "ErrNotFound"

\* a faulty check that lets every uninstall error through (C4 must reject it)
UninstallNeverFailed(err) == FALSE

\* Reconcile records the failure and returns the error on any other error
UninstallFailed(err) == err # "nil"

UninstallStep(c) ==
    /\ pc[c] = "uninstall"
    /\ ~FinalizerNotFound(o[c].finalizers)
    /\ \E hist \in {"ok", "notfound", "error"}, out \in TillerUninstallOutcomes(store[c]), ok \in BOOLEAN :
        LET err == UninstallError(store[c], hist, out)
            called == hist = "ok" /\ store[c] # {}
            rels == IF called THEN TillerUninstall(store[c], out) ELSE store[c]
            objs == IF called /\ out = "ok" THEN NoObjects ELSE cluster[c]
            trace == Append(calls[c], Call("UninstallRelease", err))
            written == ~UninstallSkipped(err)
        IN /\ hist = "notfound" => store[c] = {}
           /\ ~called => out = "error"
           /\ ~written => ok
           /\ Charge(hist # "ok" \/ (called /\ out # "ok") \/ (written /\ WriteFault(c, ok)))
           /\ store' = [store EXCEPT ![c] = rels]
           /\ IF UninstallSkipped(err)
              THEN /\ Return(c, "nil", FALSE, trace)
                   /\ UNCHANGED <<cr, cluster>>
              ELSE IF UninstallFailed(err)
              THEN FailWith(c, "uninstall", trace, ok, objs)
              ELSE /\ CanWrite(c, ok)
                   /\ updateResource(c, [o[c] EXCEPT !.finalizers = WithoutFinalizer(@)],
                                     StatusOnUninstall(o[c].status), ok, objs)
                   /\ Return(c, IF ok THEN "nil" ELSE "write", RequeueAfterResync("uninstall"),
                             Append(trace, WriteCall(ok)))
    /\ UNCHANGED <<fvars, active, pick, leftFailed>>

\* --------------------------------------------------- manager.PrepareRelease
\* the dry-run update's manifest differs from the deployed one
ManifestDiffers(deployed, spec) == deployed.manifest # Render(spec)

\* a faulty PrepareRelease that asks for an update whatever it found (C35 must
\* reject it)
PreparedAlwaysUpdate(deployed, spec) ==
    [isReleaseInstalled |-> deployed # NoRelease,
     isUpdateRequired |-> TRUE,
     deployedRelease |-> deployed]

\* the manager after PrepareRelease found `deployed` (NoRelease: ErrNotFound)
Prepared(deployed, spec) ==
    IF deployed = NoRelease THEN FreshManager
    ELSE [isReleaseInstalled |-> TRUE,
          isUpdateRequired |-> ManifestDiffers(deployed, spec),
          deployedRelease |-> deployed]

\* a faulty choice that never takes the update path (C30 must reject it)
PhaseWithoutUpdate(m) ==
    IF ~m.isReleaseInstalled THEN "install" ELSE "reconcile"

\* Reconcile: the phase chosen from the manager's signals
Phase(m) ==
    IF ~m.isReleaseInstalled THEN "install"
    ELSE IF m.isUpdateRequired THEN "update"
    ELSE "reconcile"

PrepareStep(c) ==
    /\ pc[c] = "prepare"
    /\ \E out \in {"ok", "load", "deployed", "dryrun"}, ok \in BOOLEAN :
        LET d == Deployed(store[c])
        IN /\ out = "dryrun" => d # NoRelease
           /\ out = "ok" => ok
           /\ Charge(out # "ok")
           /\ IF out = "ok"
              THEN /\ mgr' = [mgr EXCEPT ![c] = Prepared(d, o[c].spec)]
                   /\ pc' = [pc EXCEPT ![c] = Phase(Prepared(d, o[c].spec))]
                   /\ calls' = [calls EXCEPT ![c] = Append(@, Call("PrepareRelease", "nil"))]
                   /\ UNCHANGED <<cr, cluster, o, stale, result>>
              ELSE FailWith(c, "prepare", Append(calls[c], Call("PrepareRelease", "error")), ok, cluster[c])
    /\ UNCHANGED <<fvars, active, pick, leftFailed, store>>

\* ------------------------------------------------------------ install path
\* manager.InstallRelease issues the compensating uninstall iff the failed
\* install's response carries a release
Compensates(out) == out = "unrecorded" \/ out = "recorded"

InstallStep(c) ==
    /\ pc[c] = "install"
    /\ \E out \in TillerInstallOutcomes(store[c]), un \in {"ok", "error", "deleting"}, ok \in BOOLEAN :
        LET manifest == Render(o[c].spec)
            rels1 == TillerInstall(store[c], manifest, out)
            comp == out # "ok" /\ Compensates(out)
            rels2 == IF comp THEN TillerUninstall(rels1, un) ELSE rels1
            objs == IF out = "ok" THEN ObjectsOf(manifest)
                    ELSE IF out = "recorded" /\ un # "ok" THEN ObjectsOf(manifest)
                    ELSE IF out = "recorded" THEN NoObjects
                    ELSE cluster[c]
            installed == Rel(1, DEPLOYED, manifest)
            trace == Append(calls[c], Call("InstallRelease", IF out = "ok" THEN "nil" ELSE "error"))
        IN /\ un \in (IF comp THEN TillerUninstallOutcomes(rels1) ELSE {"error"})
           /\ CanWrite(c, ok)
           /\ Charge((out # "ok" /\ store[c] = {}) \/ WriteFault(c, ok))
           /\ store' = [store EXCEPT ![c] = rels2]
           /\ leftFailed' = [leftFailed EXCEPT ![c] = @ \/ (out # "ok" /\ rels2 # {})]
           /\ IF out # "ok"
              THEN FailWith(c, "install", trace, ok, objs)
              ELSE /\ updateResource(c, o[c], StatusOnApply(o[c].status, installed), ok, objs)
                   /\ Return(c, IF ok THEN "nil" ELSE "write", RequeueAfterResync("install"),
                             Append(trace, WriteCall(ok)))
    /\ UNCHANGED <<fvars, active, pick>>

\* ------------------------------------------------------------- update path
UpdateStep(c) ==
    /\ pc[c] = "update"
    /\ \E out \in TillerUpdateOutcomes(store[c]), rb \in {"ok", "error"}, ok \in BOOLEAN :
        LET manifest == Render(o[c].spec)
            rels1 == TillerUpdate(store[c], manifest, out)
            comp == out = "recorded"
            rels2 == IF comp THEN TillerRollback(rels1, rb) ELSE rels1
            updated == Rel(LastVersion(store[c]) + 1, DEPLOYED, manifest)
            objs == IF out = "ok" THEN ObjectsOf(manifest) ELSE cluster[c]
            trace == Append(calls[c], Call("UpdateRelease", IF out = "ok" THEN "nil" ELSE "error"))
        IN /\ rb \in (IF comp THEN TillerRollbackOutcomes(rels1) ELSE {"error"})
           /\ CanWrite(c, ok)
           /\ Charge((out # "ok" /\ DeployedOf(store[c]) # {}) \/ WriteFault(c, ok))
           /\ store' = [store EXCEPT ![c] = rels2]
           /\ IF out # "ok"
              THEN FailWith(c, "update", trace, ok, objs)
              ELSE /\ updateResource(c, o[c], StatusOnApply(o[c].status, updated), ok, objs)
                   /\ Return(c, IF ok THEN "nil" ELSE "write", RequeueAfterResync("update"),
                             Append(trace, WriteCall(ok)))
    /\ UNCHANGED <<fvars, active, pick, leftFailed>>

\* ---------------------------------------------------------- reconcile path
\* a faulty visitor that leaves an object that already exists as it is (C12 must reject it)
CreateOnly(content, m, fail) ==
    IF fail = "create" THEN [content |-> content, err |-> "create"]
    ELSE IF content = 0 THEN [content |-> m, err |-> "nil"]
    ELSE [content |-> content, err |-> "nil"]

\* the visitor of ReconcileRelease on one object: helper.Create, and helper.Patch
\* with the whole object when Create answers already-exists. fail: "create", a
\* Create error other than already-exists; "patch", a Patch error; "none"
CreateOrPatch(content, m, fail) ==
    IF fail = "create" THEN [content |-> content, err |-> "create"]
    ELSE IF content = 0 THEN [content |-> m, err |-> "nil"]
    ELSE IF fail = "patch" THEN [content |-> content, err |-> "patch"]
    ELSE [content |-> m, err |-> "nil"]

\* expectedInfos.Visit from the i-th object on: the first error ends the visit
RECURSIVE VisitFrom(_, _, _, _, _)
VisitFrom(objs, m, i, k, fail) ==
    IF i > Len(ObjectOrder) THEN [objs |-> objs, err |-> "nil", visited |-> i - 1]
    ELSE LET x == ObjectOrder[i]
             r == CreateOrPatch(objs[x], m, IF i = k THEN fail ELSE "none")
         IN IF r.err # "nil" THEN [objs |-> objs, err |-> r.err, visited |-> i - 1]
            ELSE VisitFrom([objs EXCEPT ![x] = r.content], m, i + 1, k, fail)

\* manager.ReconcileRelease: build the deployed manifest's objects and visit them
ReconcileRelease(objs, m, k, fail) ==
    IF fail = "build" THEN [objs |-> objs, err |-> "build", visited |-> 0]
    ELSE VisitFrom(objs, m, 1, k, fail)

ReconcileStep(c) ==
    /\ pc[c] = "reconcile"
    /\ \E fail \in {"none", "build", "create", "patch"}, k \in 0..Len(ObjectOrder), ok \in BOOLEAN :
        LET r == ReconcileRelease(cluster[c], mgr[c].deployedRelease.manifest, k, fail)
            done == {ObjectOrder[i] : i \in 1..r.visited}
            log == (IF \E x \in done : cluster[c][x] = 0
                    THEN <<Call("helper.Create", "nil")>> ELSE <<>>)
                   \o (IF \E x \in done : cluster[c][x] # 0
                       THEN <<Call("helper.Patch", "nil")>> ELSE <<>>)
                   \o (IF r.err = "create" THEN <<Call("helper.Create", "error")>>
                       ELSE IF r.err = "patch" THEN <<Call("helper.Patch", "error")>>
                       ELSE <<>>)
            trace == calls[c] \o log
                     \o <<Call("ReconcileRelease", IF r.err = "nil" THEN "nil" ELSE "error")>>
        IN /\ IF fail \in {"create", "patch"} THEN k >= 1 ELSE k = 0
           /\ fail # "none" => r.err # "nil"
           /\ r.err = "nil" => ok
           /\ Charge(r.err # "nil")
           /\ IF r.err = "nil"
              THEN /\ cluster' = [cluster EXCEPT ![c] = r.objs]
                   /\ Return(c, "nil", RequeueAfterResync("reconcile"), trace)
                   /\ UNCHANGED cr
              ELSE FailWith(c, "reconcile", trace, ok, r.objs)
    /\ UNCHANGED <<fvars, active, pick, leftFailed, store>>

\* ------------------------------------------------------------------- Next
Reconcile(c) ==
    \/ BeginNotFound(c)
    \/ BeginGetError(c)
    \/ AddFinalizer(c)
    \/ Begin(c)
    \/ SyncStep(c)
    \/ SkipUninstall(c)
    \/ UninstallStep(c)
    \/ PrepareStep(c)
    \/ InstallStep(c)
    \/ UpdateStep(c)
    \/ ReconcileStep(c)

Next ==
    \/ \E c \in CRs : Reconcile(c)
    \/ \E c \in CRs : ChangeSpec(c)
    \/ \E c \in CRs : DeleteCR(c)
    \/ \E c \in CRs : Drift(c)
    \/ Restart

Spec == Init /\ [][Next]_vars

\* reconciles are scheduled fairly; injected failures are finite (MaxFaults), so
\* every call eventually succeeds
LiveSpec == Init /\ [][Next]_vars /\ \A c \in CRs : WF_vars(Reconcile(c))

\* ============================================================ release names
\* the reconciler at rest, with no CR: the state the function specifications keep
Parked ==
    /\ active = {}
    /\ pick = "first"
    /\ cr = [c \in CRs |-> NoCR]
    /\ store = [c \in CRs |-> {}]
    /\ cluster = [c \in CRs |-> NoObjects]
    /\ pc = [c \in CRs |-> "idle"]
    /\ o = [c \in CRs |-> NoCR]
    /\ stale = [c \in CRs |-> FALSE]
    /\ mgr = [c \in CRs |-> FreshManager]
    /\ calls = [c \in CRs |-> <<>>]
    /\ result = [c \in CRs |-> NoResult]
    /\ leftFailed = [c \in CRs |-> FALSE]
    /\ faults = 0

\* strings are sequences of characters; a uid is at most MaxUidLen characters of
\* UidChars: hex digits (one in both cases), the dash, and a non-hex letter
MaxUidLen == 3
UidChars == {"0", "a", "A", "-", "z"}
Uids == UNION {[1..n -> UidChars] : n \in 0..MaxUidLen}
CRNames == {<<"x">>, <<"y">>}

\* the UUID text form scaled down: UUIDDigits hex digits with a dash between
\* neighbours (the real form has 32 digits in groups of 8-4-4-4-12), each digit
\* standing for one byte of the parsed UUID
UUIDDigits == 2

\* base36: the digit alphabet of base36.EncodeBytes, and its lower-case form
Uppercase == <<"0", "1", "2", "3", "4", "5", "6", "7", "8", "9", "A", "B", "C", "D", "E",
               "F", "G", "H", "I", "J", "K", "L", "M", "N", "O", "P", "Q", "R", "S", "T",
               "U", "V", "W", "X", "Y", "Z">>
Lowercase == <<"0", "1", "2", "3", "4", "5", "6", "7", "8", "9", "a", "b", "c", "d", "e",
               "f", "g", "h", "i", "j", "k", "l", "m", "n", "o", "p", "q", "r", "s", "t",
               "u", "v", "w", "x", "y", "z">>

\* strings.ToLower
ToLowerChar(ch) ==
    IF \E i \in 1..Len(Uppercase) : Uppercase[i] = ch
    THEN Lowercase[CHOOSE i \in 1..Len(Uppercase) : Uppercase[i] = ch]
    ELSE ch
ToLower(str) == [i \in 1..Len(str) |-> ToLowerChar(str[i])]

\* strings.Replace(str, old, "", -1) for a one-character old
Replace(str, old) == SelectSeq(str, LAMBDA ch : ch # old)

\* xtob: the value of a hex digit, either case; -1 for any other character
HexValue(ch) ==
    IF \E i \in 1..16 : Uppercase[i] = ch \/ Lowercase[i] = ch
    THEN (CHOOSE i \in 1..16 : Uppercase[i] = ch \/ Lowercase[i] = ch) - 1
    ELSE -1

\* a nil uuid.UUID
NilUUID == [nil |-> TRUE, bytes |-> <<>>]

\* uuid.Parse: nil unless the text has the UUID form, else its bytes
Parse(str) ==
    IF Len(str) # 2 * UUIDDigits - 1 THEN NilUUID
    ELSE IF \E i \in 1..Len(str) : i % 2 = 0 /\ str[i] # "-" THEN NilUUID
    ELSE IF \E i \in 1..Len(str) : i % 2 = 1 /\ HexValue(str[i]) < 0 THEN NilUUID
    ELSE [nil |-> FALSE, bytes |-> [i \in 1..UUIDDigits |-> HexValue(str[2 * i - 1])]]

\* UUID.MarshalBinary: the bytes; for the nil UUID an error or no bytes at all,
\* as the vendored package has it
MarshalBinary(u) ==
    [bytes |-> u.bytes, err |-> u.nil /\ nilMarshal = "error"]

\* base36.EncodeBytes: the big-endian number in base 36, most significant digit
\* first, preceded by one "0" for every leading zero byte
RECURSIVE BigValue(_, _)
BigValue(bytes, n) == IF n = 0 THEN 0 ELSE BigValue(bytes, n - 1) * 16 + bytes[n]
RECURSIVE Base36Digits(_)
Base36Digits(x) ==
    IF x = 0 THEN <<>> ELSE Append(Base36Digits(x \div 36), Uppercase[(x % 36) + 1])
LeadingZeros(bytes) ==
    Cardinality({i \in 1..Len(bytes) : \A j \in 1..i : bytes[j] = 0})
EncodeBytes(bytes) ==
    [i \in 1..LeadingZeros(bytes) |-> "0"] \o Base36Digits(BigValue(bytes, Len(bytes)))

shortenUID(uid) ==
    LET m == MarshalBinary(Parse(uid))
    IN IF m.err THEN Replace(uid, "-") ELSE ToLower(EncodeBytes(m.bytes))

\* fmt.Sprintf("%s-%s", name, shortenUID(uid))
GetReleaseName(r) == r.name \o <<"-">> \o shortenUID(r.uid)

NameInit ==
    /\ Parked
    /\ RenderIdle
    /\ WatchesIdle
    /\ ManagerIdle
    /\ RaceIdle
    /\ LoopIdle
    /\ objA \in [name : {<<"x">>}, uid : Uids, rest : {0}]
    /\ objB \in [name : CRNames, uid : Uids, rest : {0}]
    /\ names = NoNames
    /\ nilMarshal \in {"error", "empty"}

\* a reconcile builds the manager of each CR, which computes its release name
NameReleases ==
    /\ names' = <<GetReleaseName(objA), GetReleaseName(objB)>>
    /\ UNCHANGED <<rvars, wvars, mvars, cvars, lvars, objA, objB, nilMarshal, rendered, engineErr, renderOut>>

\* the first CR is edited: spec, status, annotations, finalizers or generation
\* change, its name and uid do not
EditObject ==
    /\ objA' = [objA EXCEPT !.rest = 1 - @]
    /\ UNCHANGED <<rvars, wvars, mvars, cvars, lvars, objB, names, nilMarshal, rendered, engineErr, renderOut>>

NameNext == NameReleases \/ EditObject

NameSpec == NameInit /\ [][NameNext]_vars

\* ========================================================= OwnerRefEngine
\* documents of the file that holds several (the other files hold at most one)
MaxDocs == 2

\* file names, as base and suffix
Template == <<"template", ".yaml">>
Template2 == <<"template2", ".yaml">>
Notes == <<"NOTES", ".txt">>
FileNames == {Template, Template2, Notes}

\* strings.HasSuffix(fileName, ".yaml")
HasSuffix(fileName, suffix) == fileName[2] = suffix

\* owner references: none, the ones a template rendered itself, the configured
\* ones (the CR as controller)
NoOwners == <<>>
TemplateOwners == <<"other">>
refs == <<"cr">>

\* a YAML document: empty (blank or comments only), an object, text that does
\* not parse, or an object the unstructured converter rejects
Document(kind, id, owners) == [kind |-> kind, id |-> id, owners |-> owners]
EmptyDocument == Document("empty", 0, NoOwners)
Documents ==
    {EmptyDocument, Document("unparsable", 0, NoOwners), Document("unconvertible", 0, NoOwners)}
    \cup {Document("object", id, ow) : id \in 1..2, ow \in {NoOwners, TemplateOwners}}
DocumentsUpTo(n) == UNION {[1..k -> Documents] : k \in 0..n}

documentSeparator == "---\n"

\* the orders in which a Go map with keys 1..n may be iterated
Orders(n) == {p \in [1..n -> 1..n] : \A i, j \in 1..n : p[i] = p[j] => i = j}
OrdersOf(set) == {p \in [1..Cardinality(set) -> set] :
                     \A i, j \in 1..Cardinality(set) : p[i] = p[j] => i = j}

\* a faulty setter that keeps the owner references a template rendered
\* (C24 must reject it)
SetOwnerReferencesIfAbsent(doc, owners) ==
    IF doc.owners = NoOwners THEN [doc EXCEPT !.owners = owners] ELSE doc

\* unstructured.SetOwnerReferences(o.refs)
SetOwnerReferences(doc, owners) == [doc EXCEPT !.owners = owners]

\* addOwnerRefs: the documents of one file (the map releaseutil.SplitManifests
\* returns), visited in the map's iteration order from its i-th key on; buf is
\* the buffer written so far
RECURSIVE addOwnerRefs(_, _, _, _)
addOwnerRefs(docs, order, i, buf) ==
    IF i > Len(order) THEN [out |-> buf, err |-> "none"]
    ELSE LET manifest == docs[order[i]]
         IN IF manifest.kind = "unparsable" THEN [out |-> <<>>, err |-> "parse"]
            ELSE IF manifest.kind = "empty" THEN addOwnerRefs(docs, order, i + 1, buf)
            ELSE IF manifest.kind = "unconvertible" THEN [out |-> <<>>, err |-> "convert"]
            ELSE addOwnerRefs(docs, order, i + 1,
                              buf \o <<SetOwnerReferences(manifest, refs), documentSeparator>>)

\* a nil map with the error; file is the file the error text names, and the
\* error of addOwnerRefs, which Render passes on as it is, names none
Failure(err) == [done |-> TRUE, nil |-> TRUE, files |-> <<>>, err |-> err, file |-> NoFile]

\* a faulty loop that keeps a file whose output is empty (C25 must reject it)
OwnerRefRenderKeepingEmpty(files, fileOrder, docOrder, i, owned) ==
    [done |-> TRUE, nil |-> FALSE,
     files |-> [f \in {g \in DOMAIN files : HasSuffix(g, ".yaml")} |->
                   addOwnerRefs(files[f], docOrder[f], 1, <<>>).out],
     err |-> "none", file |-> NoFile]

\* OwnerRefEngine.Render after the wrapped engine succeeded: the loop over its
\* files, visited in the map's iteration order from the i-th on; owned is
\* ownedRenderedFiles so far
RECURSIVE OwnerRefRender(_, _, _, _, _)
OwnerRefRender(files, fileOrder, docOrder, i, owned) ==
    IF i > Len(fileOrder)
    THEN [done |-> TRUE, nil |-> FALSE, files |-> owned, err |-> "none", file |-> NoFile]
    ELSE LET fileName == fileOrder[i]
             withOwner == addOwnerRefs(files[fileName], docOrder[fileName], 1, <<>>)
         IN IF ~HasSuffix(fileName, ".yaml") THEN OwnerRefRender(files, fileOrder, docOrder, i + 1, owned)
            ELSE IF withOwner.err # "none" THEN Failure(withOwner.err)
            ELSE IF withOwner.out = <<>> THEN OwnerRefRender(files, fileOrder, docOrder, i + 1, owned)
            ELSE OwnerRefRender(files, fileOrder, docOrder, i + 1,
                        [f \in DOMAIN owned \cup {fileName} |->
                            IF f = fileName THEN withOwner.out ELSE owned[f]])

RenderInit ==
    /\ Parked
    /\ NamesIdle
    /\ WatchesIdle
    /\ ManagerIdle
    /\ RaceIdle
    /\ LoopIdle
    /\ rendered \in [FileNames -> DocumentsUpTo(MaxDocs)]
    /\ Len(rendered[Template2]) <= 1
    /\ Len(rendered[Notes]) <= 1
    /\ engineErr \in BOOLEAN
    /\ renderOut = NotRendered

\* tiller renders the chart through the engine
RenderChart ==
    /\ \E fileOrder \in OrdersOf(FileNames), order \in Orders(Len(rendered[Template])) :
           LET docOrder == [f \in FileNames |->
                               IF f = Template THEN order ELSE [i \in 1..Len(rendered[f]) |-> i]]
           IN renderOut' = IF engineErr THEN Failure("engine")
                           ELSE OwnerRefRender(rendered, fileOrder, docOrder, 1, <<>>)
    /\ UNCHANGED <<rvars, wvars, mvars, cvars, lvars, objA, objB, names, nilMarshal, rendered, engineErr>>

RenderNext == RenderChart

RenderSpec == RenderInit /\ [][RenderNext]_vars

\* ========================================================= watch bindings
\* release/helm.go: NewManagersFromFile reads the watches file and builds one
\* manager per (group, version, kind) it lists.

\* bindings in one watches file
MaxWatches == 2

Groups == {"", "apps.example.com"}
Versions == {"", "v1alpha1"}
Kinds == {"", "App"}
\* the directories that hold a chart; any other path is not a chart directory
ChartDirs == {"/charts/a", "/charts/b"}
Charts == ChartDirs \cup {"/missing"}

\* type watch struct { Group, Version, Kind, Chart }; a key the YAML leaves
\* out unmarshals to the empty string
watch == [Group : Groups, Version : Versions, Kind : Kinds, Chart : Charts]

RECURSIVE WatchesUpTo(_)
WatchesUpTo(n) ==
    IF n = 0 THEN {<<>>}
    ELSE LET shorter == WatchesUpTo(n - 1)
         IN shorter \cup {Append(ws, w) : ws \in {x \in shorter : Len(x) = n - 1}, w \in watch}

\* schema.GroupVersionKind{Group: w.Group, Version: w.Version, Kind: w.Kind}
GroupVersionKind(w) == [Group |-> w.Group, Version |-> w.Version, Kind |-> w.Kind]

verifyGVKRequiringGroup(gvk) ==
    IF gvk.Group = "" THEN "group must not be empty"
    ELSE IF gvk.Version = "" THEN "version must not be empty"
    ELSE IF gvk.Kind = "" THEN "kind must not be empty"
    ELSE "nil"

\* a GVK without a group is valid
verifyGVK(gvk) ==
    IF gvk.Version = "" THEN "version must not be empty"
    ELSE IF gvk.Kind = "" THEN "kind must not be empty"
    ELSE "nil"

\* chartutil.IsChartDir(dir) returns no error
IsChartDir(dir) == dir \in ChartDirs

\* NewManager(storageBackend, tillerKubeClient, chartDir): the manager is its chart directory
NewManager(chartDir) == chartDir

\* return nil, fmt.Errorf(...)
LoadFailure(err) == [nil |-> TRUE, m |-> NoManagers, err |-> err]

\* for _, w := range watches { ... }
RECURSIVE loadWatches(_, _, _)
loadWatches(watches, i, m) ==
    IF i > Len(watches) THEN [nil |-> FALSE, m |-> m, err |-> "none"]
    ELSE LET w == watches[i]
             gvk == GroupVersionKind(w)
         IN IF verifyGVK(gvk) # "nil" THEN LoadFailure("invalid GVK")
            ELSE IF ~IsChartDir(w.Chart) THEN LoadFailure("invalid chart directory")
            ELSE IF gvk \in DOMAIN m THEN LoadFailure("duplicate GVK")
            ELSE loadWatches(watches, i + 1,
                     [g \in DOMAIN m \cup {gvk} |-> IF g = gvk THEN NewManager(w.Chart) ELSE m[g]])

NewManagersFromFile(file) ==
    IF ~file.readable THEN LoadFailure("failed to read config file")
    ELSE IF ~file.parsable THEN LoadFailure("failed to unmarshal config")
    ELSE loadWatches(file.watches, 1, NoManagers)

WatchInit ==
    /\ Parked
    /\ NamesIdle
    /\ RenderIdle
    /\ ManagerIdle
    /\ RaceIdle
    /\ LoopIdle
    /\ watchesFile \in [readable : BOOLEAN, parsable : BOOLEAN, watches : WatchesUpTo(MaxWatches)]
    /\ ~(watchesFile.readable /\ watchesFile.parsable) => watchesFile.watches = <<>>
    /\ ~watchesFile.readable => ~watchesFile.parsable
    /\ managers = NotLoaded

\* the operator starts and loads its watches file
LoadWatches ==
    /\ LET loaded == NewManagersFromFile(watchesFile)
       IN managers' = [done |-> TRUE, nil |-> loaded.nil, m |-> loaded.m, err |-> loaded.err]
    /\ UNCHANGED <<rvars, mvars, cvars, lvars, objA, objB, names, nilMarshal, rendered, engineErr, renderOut, watchesFile>>

WatchNext == LoadWatches

WatchSpec == WatchInit /\ [][WatchNext]_vars

\* ======================================================= manager operations
\* The release manager's operations on one release name, called one after the
\* other against the release server.

\* revisions one release name goes through
MaxRevision == 4

\* manager.InstallRelease: tiller's InstallRelease and, when it fails with a
\* release in the response, tiller's UninstallRelease with Purge
InstallRelease(rels, manifest, out, un) ==
    LET rels1 == TillerInstall(rels, manifest, out)
        comp == out # "ok" /\ Compensates(out)
    IN [rels |-> IF comp THEN TillerUninstall(rels1, un) ELSE rels1,
        tiller |-> <<Call("InstallRelease", out)>>
                   \o (IF comp THEN <<Call("UninstallRelease", un)>> ELSE <<>>),
        err |-> IF out = "ok" THEN "nil"
                ELSE IF comp /\ un # "ok" THEN "failed to roll back failed installation"
                ELSE "install",
        release |-> IF out = "ok" THEN Rel(1, DEPLOYED, manifest) ELSE NoRelease,
        previous |-> NoRelease]

\* a faulty update that never rolls back (C33 must reject it)
UpdateReleaseWithoutRollback(rels, manifest, out, rb, deployedRelease) ==
    [rels |-> TillerUpdate(rels, manifest, out),
     tiller |-> <<Call("UpdateRelease", out)>>,
     err |-> IF out = "ok" THEN "nil" ELSE "update",
     release |-> IF out = "ok" THEN Rel(LastVersion(rels) + 1, DEPLOYED, manifest) ELSE NoRelease,
     previous |-> IF out = "ok" THEN deployedRelease ELSE NoRelease]

\* manager.UpdateRelease: tiller's UpdateRelease and, when it fails with a
\* release in the response, tiller's RollbackRelease with Force; deployedRelease
\* is what PrepareRelease of this manager found
UpdateRelease(rels, manifest, out, rb, deployedRelease) ==
    LET rels1 == TillerUpdate(rels, manifest, out)
        comp == out = "recorded"
    IN [rels |-> IF comp THEN TillerRollback(rels1, rb) ELSE rels1,
        tiller |-> <<Call("UpdateRelease", out)>>
                   \o (IF comp THEN <<Call("RollbackRelease", rb)>> ELSE <<>>),
        err |-> IF out = "ok" THEN "nil"
                ELSE IF comp /\ rb # "ok" THEN "failed to roll back failed update"
                ELSE "update",
        release |-> IF out = "ok" THEN Rel(LastVersion(rels) + 1, DEPLOYED, manifest) ELSE NoRelease,
        previous |-> IF out = "ok" THEN deployedRelease ELSE NoRelease]

\* a faulty uninstall that does not look at what History answered (C34 must
\* reject it)
UninstallReleaseWithoutHistory(rels, hist, out) ==
    [rels |-> TillerUninstall(rels, out),
     tiller |-> <<Call("History", hist), Call("UninstallRelease", out)>>,
     err |-> IF out = "ok" THEN "nil" ELSE "error",
     release |-> NoRelease,
     previous |-> NoRelease]

\* manager.UninstallRelease: storageBackend.History, ErrNotFound when it lists
\* nothing, else tiller's UninstallRelease with Purge.  The log holds the calls
\* made to the store and to tiller
UninstallRelease(rels, hist, out) ==
    LET called == hist = "ok" /\ rels # {}
    IN [rels |-> IF called THEN TillerUninstall(rels, out) ELSE rels,
        tiller |-> <<Call("History", hist)>>
                   \o (IF called THEN <<Call("UninstallRelease", out)>> ELSE <<>>),
        err |-> UninstallError(rels, hist, out),
        release |-> NoRelease,
        previous |-> NoRelease]

Replied(op, before, r) ==
    [op |-> op, before |-> before, tiller |-> r.tiller, err |-> r.err,
     release |-> r.release, previous |-> r.previous]

ManagerInit ==
    /\ Parked
    /\ NamesIdle
    /\ RenderIdle
    /\ WatchesIdle
    /\ RaceIdle
    /\ LoopIdle
    /\ history = {}
    /\ reply = NoReply

\* Reconcile calls a release operation after Sync of the same manager returned
\* nil: the history then holds no version that is not DEPLOYED
Synced(rels) == StaleVersions(rels) = {}

\* Reconcile calls InstallRelease after PrepareRelease found no deployed release
CallInstall ==
    /\ Synced(history)
    /\ DeployedOf(history) = {}
    /\ \E spec \in Specs, out \in TillerInstallOutcomes(history), un \in {"ok", "error", "deleting"} :
           LET r == InstallRelease(history, Render(spec), out, un)
           IN /\ un \in (IF out # "ok" /\ Compensates(out)
                          THEN TillerUninstallOutcomes(TillerInstall(history, Render(spec), out))
                          ELSE {"error"})
              /\ history' = r.rels
              /\ reply' = Replied("InstallRelease", history, r)
    /\ UNCHANGED <<rvars, wvars, cvars, lvars, objA, objB, names, nilMarshal, rendered, engineErr, renderOut>>

\* Reconcile calls UpdateRelease after PrepareRelease found a deployed release
CallUpdate ==
    /\ Synced(history)
    /\ DeployedOf(history) # {}
    /\ LastVersion(history) + 2 <= MaxRevision
    /\ \E spec \in Specs, out \in TillerUpdateOutcomes(history), rb \in {"ok", "error"} :
           LET r == UpdateRelease(history, Render(spec), out, rb, Deployed(history))
           IN /\ rb \in (IF out = "recorded"
                          THEN TillerRollbackOutcomes(TillerUpdate(history, Render(spec), out))
                          ELSE {"error"})
              /\ history' = r.rels
              /\ reply' = Replied("UpdateRelease", history, r)
    /\ UNCHANGED <<rvars, wvars, cvars, lvars, objA, objB, names, nilMarshal, rendered, engineErr, renderOut>>

\* Reconcile calls UninstallRelease for a deleted CR that has the finalizer
CallUninstall ==
    /\ Synced(history)
    /\ \E hist \in {"ok", "notfound", "error"}, out \in TillerUninstallOutcomes(history) :
           LET r == UninstallRelease(history, hist, out)
           IN /\ hist = "notfound" => history = {}
              /\ ~(hist = "ok" /\ history # {}) => out = "error"
              /\ history' = r.rels
              /\ reply' = Replied("UninstallRelease", history, r)
    /\ UNCHANGED <<rvars, wvars, cvars, lvars, objA, objB, names, nilMarshal, rendered, engineErr, renderOut>>

\* manager.Sync: the cleanup loop deletes every version that is not DEPLOYED
CallSync ==
    /\ history' = Cleanup(history, 0, {}).rels
    /\ reply' = [NoReply EXCEPT !.op = "Sync", !.before = history]
    /\ UNCHANGED <<rvars, wvars, cvars, lvars, objA, objB, names, nilMarshal, rendered, engineErr, renderOut>>

ManagerNext == CallInstall \/ CallUpdate \/ CallUninstall \/ CallSync

ManagerSpec == ManagerInit /\ [][ManagerNext]_vars

\* ==================================================== concurrent reconciles
\* Two CRs are reconciled at the same time.  The release store is the one
\* storage backend of the process, keyed by release name; each reconcile works
\* under the release name its manager computed from the CR (newManagerForCR).
\* No call fails on its own here: what is looked at is the interleaving.
Jobs == {"A", "B"}

Meta(x) == IF x = "A" THEN objA ELSE objB

\* releaseName: releaseNameForCR(u)
ReleaseNameOf(x) == GetReleaseName(Meta(x))

\* uids in the UUID text form of two digits
RaceUids == {u \in Uids : Len(u) = 3 /\ u[2] = "-"}

NewJob(spec) == [pc |-> "idle", mgr |-> FreshManager, status |-> EmptyStatus, spec |-> spec]

EmptyWorld ==
    [shared |-> [n \in {ReleaseNameOf(x) : x \in Jobs} |-> {}],
     job |-> [x \in Jobs |-> NewJob(1)]]

\* manager.Sync of x's manager, all calls succeeding
SyncOf(w, x) ==
    LET n == ReleaseNameOf(x)
        st == w.job[x].status
        rels0 == w.shared[n]
        rels1 == IF NeedsCreate(st, rels0, FALSE) THEN rels0 \cup {st.release} ELSE rels0
    IN [shared |-> [w.shared EXCEPT ![n] = Cleanup(rels1, 0, {}).rels],
        job |-> [w.job EXCEPT ![x].pc = "prepare", ![x].mgr = FreshManager]]

\* manager.PrepareRelease of x's manager and the phase Reconcile chooses
PrepareOf(w, x) ==
    LET m == Prepared(Deployed(w.shared[ReleaseNameOf(x)]), w.job[x].spec)
    IN [w EXCEPT !.job[x].mgr = m, !.job[x].pc = Phase(m)]

\* the install, update or reconcile path of x's reconcile; tiller refuses an
\* install under a name that has history and an update without a deployed release
ApplyOf(w, x) ==
    LET n == ReleaseNameOf(x)
        j == w.job[x]
        rels == w.shared[n]
        manifest == Render(j.spec)
        r == IF j.pc = "install"
             THEN InstallRelease(rels, manifest,
                                 IF "ok" \in TillerInstallOutcomes(rels) THEN "ok" ELSE "error", "error")
             ELSE UpdateRelease(rels, manifest,
                                IF "ok" \in TillerUpdateOutcomes(rels) THEN "ok" ELSE "error", "error",
                                j.mgr.deployedRelease)
    IN IF j.pc = "reconcile" THEN [w EXCEPT !.job[x].pc = "done"]
       ELSE [shared |-> [w.shared EXCEPT ![n] = r.rels],
             job |-> [w.job EXCEPT ![x].pc = "done",
                                   ![x].status = IF r.err = "nil" THEN StatusOnApply(j.status, r.release)
                                                 ELSE StatusOnFailure(j.status)]]

\* one whole reconcile of x, nothing else running meanwhile
Run(w, x) ==
    CHOOSE done \in {ApplyOf(prepared, x) :
                        prepared \in {PrepareOf(synced, x) : synced \in {SyncOf(w0, x) : w0 \in {w}}}} : TRUE

\* the CR of x is given a spec and awaits its reconcile
Await(w, x, spec) == [w EXCEPT !.job[x].pc = "idle", !.job[x].spec = spec, !.job[x].mgr = FreshManager]

RaceInit ==
    /\ Parked
    /\ RenderIdle
    /\ WatchesIdle
    /\ ManagerIdle
    /\ LoopIdle
    /\ objA = [name |-> <<"x">>, uid |-> <<"a", "-", "0">>, rest |-> 0]
    /\ objB \in [name : CRNames, uid : RaceUids \ {objA.uid}, rest : {0}]
    /\ names = NoNames
    /\ nilMarshal \in {"error", "empty"}
    /\ \E before \in SUBSET Jobs, specA \in {1, 2}, specB \in {1, 2} :
           \E w0 \in {EmptyWorld} :
               \E w1 \in {IF "A" \in before THEN Run(w0, "A") ELSE w0} :
                   \E w2 \in {IF "B" \in before THEN Run(w1, "B") ELSE w1} :
                       \E w3 \in {Await(w2, "A", specA)} :
                           start = Await(w3, "B", specB)
    /\ world = start

RaceSync(x) ==
    /\ world.job[x].pc = "idle"
    /\ world' = SyncOf(world, x)
    /\ UNCHANGED <<rvars, wvars, mvars, lvars, objA, objB, names, nilMarshal, rendered, engineErr, renderOut, start>>

RacePrepare(x) ==
    /\ world.job[x].pc = "prepare"
    /\ world' = PrepareOf(world, x)
    /\ UNCHANGED <<rvars, wvars, mvars, lvars, objA, objB, names, nilMarshal, rendered, engineErr, renderOut, start>>

RaceApply(x) ==
    /\ world.job[x].pc \in {"install", "update", "reconcile"}
    /\ world' = ApplyOf(world, x)
    /\ UNCHANGED <<rvars, wvars, mvars, lvars, objA, objB, names, nilMarshal, rendered, engineErr, renderOut, start>>

RaceNext == \E x \in Jobs : RaceSync(x) \/ RacePrepare(x) \/ RaceApply(x)

RaceSpec == RaceInit /\ [][RaceNext]_vars

\* ================================================== periodic reconcile loop
\* reconcileLoop.Start: on every tick the goroutine lists the CRs of the GVK and
\* sends one event.GenericEvent per item on Source; a consumer of the channel
\* (source.Channel with EnqueueRequestForObject) reads the object an event
\* points at to build the reconcile request.
MaxTicks == 2

\* make(chan event.GenericEvent, 1025), scaled down
SourceBuffer == 2

\* what Client.List can answer: the CRs of the GVK, each once, in some order
Lists ==
    {l \in UNION {[1..n -> CRs] : n \in 0..NumCRs} :
        \A j, k \in 1..Len(l) : j # k => l[j] # l[k]}

\* &u in the body of `for _, u := range ul.Items`: the repository is built
\* without a go.mod (no go >= 1.22 line), so u is one variable for the whole
\* range statement and every iteration of tick t takes the same address
AddressOfU(t, i) == t

\* event.GenericEvent{Meta: &u, Object: &u}; item is not part of the event, it
\* notes the list item the loop sent the event for
GenericEvent(ptr, item) == [Meta |-> ptr, Object |-> ptr, item |-> item]

\* newReconcileLoop and Start: an empty channel, the goroutine waits for a tick
LoopInit ==
    /\ Parked
    /\ NamesIdle
    /\ RenderIdle
    /\ WatchesIdle
    /\ ManagerIdle
    /\ RaceIdle
    /\ loop = [NoLoop EXCEPT !.pc = "wait"]
    /\ Source = <<>>
    /\ received = <<>>

\* case <-ticker.C, Client.List fails: logged, continue
TickListFails ==
    /\ loop.pc = "wait" /\ loop.ticks < MaxTicks
    /\ loop' = [loop EXCEPT !.ticks = @ + 1,
                            !.log = Append(@, [listed |-> FALSE, Items |-> <<>>, sent |-> <<>>])]
    /\ UNCHANGED <<rvars, wvars, mvars, cvars, objA, objB, names, nilMarshal, rendered,
                   engineErr, renderOut, Source, received>>

\* case <-ticker.C, Client.List answers ul: the range over ul.Items starts
TickLists ==
    /\ loop.pc = "wait" /\ loop.ticks < MaxTicks
    /\ \E items \in Lists :
         loop' = [loop EXCEPT !.ticks = @ + 1,
                              !.pc = IF items = <<>> THEN "wait" ELSE "range",
                              !.Items = items,
                              !.i = 1,
                              !.log = Append(@, [listed |-> TRUE, Items |-> items, sent |-> <<>>])]
    /\ UNCHANGED <<rvars, wvars, mvars, cvars, objA, objB, names, nilMarshal, rendered,
                   engineErr, renderOut, Source, received>>

\* one iteration of the range: u = ul.Items[i]; r.Source <- e (blocks while the
\* buffer is full)
Send ==
    /\ loop.pc = "range" /\ Len(Source) < SourceBuffer
    /\ LET t == loop.ticks
           item == loop.Items[loop.i]
           e == GenericEvent(AddressOfU(t, loop.i), item)
       IN /\ loop' = [loop EXCEPT !.u = (e.Meta :> item) @@ @,
                                  !.i = @ + 1,
                                  !.pc = IF loop.i = Len(loop.Items) THEN "wait" ELSE "range",
                                  !.log[t].sent = Append(@, e)]
          /\ Source' = Append(Source, e)
    /\ UNCHANGED <<rvars, wvars, mvars, cvars, objA, objB, names, nilMarshal, rendered,
                   engineErr, renderOut, received>>

\* the consumer takes the next event and reads the object it points at
\* (evt.Meta.GetName()); it runs concurrently with the loop, so it finds what
\* the pointed-at variable holds at that moment
Receive ==
    /\ Source # <<>>
    /\ LET e == Head(Source)
       IN received' = Append(received, [item |-> e.item, name |-> loop.u[e.Meta]])
    /\ Source' = Tail(Source)
    /\ UNCHANGED <<rvars, wvars, mvars, cvars, objA, objB, names, nilMarshal, rendered,
                   engineErr, renderOut, loop>>

LoopNext == TickListFails \/ TickLists \/ Send \/ Receive

LoopSpec == LoopInit /\ [][LoopNext]_vars

\* ================================================================ properties
\* the current (or last) reconcile of c invoked op
Invoked(c, op) == \E i \in 1..Len(calls[c]) : calls[c][i].op = op

\* ... and op returned err
Returned(c, op, err) == \E i \in 1..Len(calls[c]) : calls[c][i] = Call(op, err)

HasFinalizer(c) == cr[c].exists /\ contains(cr[c].finalizers, finalizer)

ManagerOps == {"Sync", "PrepareRelease", "InstallRelease", "UpdateRelease",
               "ReconcileRelease", "UninstallRelease"}

\* C1: while a CR is not deleted and lacks the finalizer, no reconcile of it gets
\* past the finalizer-add branch: no manager operation is invoked, nothing is in
\* flight and no release exists; the reconcile that takes the branch appends the
\* finalizer, updates the CR and returns without requeue.
C1_FinalizerFirst ==
    \A c \in CRs :
        /\ (cr[c].exists /\ ~cr[c].deleted /\ ~contains(cr[c].finalizers, finalizer)) =>
              /\ pc[c] = "idle"
              /\ \A op \in ManagerOps : ~Invoked(c, op)
              /\ store[c] = {}
        /\ calls[c] = <<WriteCall(TRUE)>> =>
              /\ HasFinalizer(c)
              /\ cr[c].finalizers[Len(cr[c].finalizers)] = finalizer
              /\ result[c] = [ran |-> TRUE, err |-> "nil", requeueAfter |-> FALSE]
              /\ store[c] = {}

\* C1: a reconcile appended the finalizer to a list that held another one
C1_Witness ==
    \E c \in CRs : /\ calls[c] = <<WriteCall(TRUE)>>
                   /\ ~cr[c].deleted
                   /\ cr[c].finalizers = <<OtherFinalizer, finalizer>>

\* C2: under fair reconciles and finitely many failures, a deleted CR that
\* carries the finalizer eventually loses it (or is gone), whatever its history.
C2_DeletionCompletes ==
    \A c \in CRs : (HasFinalizer(c) /\ cr[c].deleted) ~> ~HasFinalizer(c)

\* C3: a reconcile in which UninstallRelease returned ErrNotFound ends with the
\* finalizer removed and returns success.
C3_NotFoundRemovesFinalizer ==
    \A c \in CRs :
        (pc[c] = "idle" /\ Returned(c, "UninstallRelease", "ErrNotFound")) =>
            (~HasFinalizer(c) /\ result[c].err = "nil" /\ ~result[c].requeueAfter)

\* C4: the finalizer is removed only by the reconcile of a deleted CR in which
\* UninstallRelease succeeded (or reported ErrNotFound), and then no version of
\* the release is stored; when UninstallRelease fails otherwise the finalizers
\* are unchanged, the failure status is written and the error is returned; a CR
\* that is gone has no stored release.
C4_FinalizerOnlyAfterUninstall ==
    [][\A c \in CRs :
            /\ (HasFinalizer(c) /\ ~HasFinalizer(c)') =>
                  /\ pc[c] = "uninstall" /\ o[c].deleted
                  /\ (Returned(c, "UninstallRelease", "nil")'
                        \/ Returned(c, "UninstallRelease", "ErrNotFound")')
                  /\ store'[c] = {}
            /\ (pc[c] = "uninstall" /\ Returned(c, "UninstallRelease", "error")') =>
                  /\ cr'[c].finalizers = cr[c].finalizers
                  /\ result'[c].err = "uninstall"
                  /\ Returned(c, "updateResource", "nil")' =>
                        (cr'[c].status.phase = PhaseFailed /\ cr'[c].status.reason = ReasonApplyFailed)
            /\ ~cr'[c].exists => store'[c] = {}
      ]_vars

\* C4: an uninstall succeeded and the write that removed the finalizer did too
C4_Witness ==
    \E c \in CRs : /\ Returned(c, "UninstallRelease", "nil")
                   /\ Returned(c, "updateResource", "nil")
                   /\ ~HasFinalizer(c)
                   /\ store[c] = {}

\* C5: an existing CR with a stored release carries the finalizer; install and
\* update run only for a fetched copy that carries it; a reconcile whose fetched
\* copy lacks it never writes the store.
C5_ReleaseImpliesFinalizer ==
    [][\A c \in CRs :
        /\ (cr'[c].exists /\ store'[c] # {}) => contains(cr'[c].finalizers, finalizer)
        /\ pc'[c] \in {"install", "update"} => contains(o'[c].finalizers, finalizer)
        /\ (pc[c] # "idle" /\ ~contains(o[c].finalizers, finalizer)) => store'[c] = store[c]
      ]_vars

\* C5: an installed release whose CR carries the finalizer
C5_Witness ==
    \E c \in CRs : /\ Returned(c, "InstallRelease", "nil")
                   /\ store[c] # {}
                   /\ HasFinalizer(c)

C7_FailedInstallRetried ==
    \A c \in CRs :
        leftFailed[c] =>
            /\ pc[c] \in {"prepare", "install", "update", "reconcile"} =>
                  \A r \in store[c] : r.code \notin {FAILED, DELETING}
            /\ pc[c] = "install" => (~mgr[c].isReleaseInstalled /\ store[c] = {})
            /\ pc[c] \in {"update", "reconcile"} =>
                  (mgr[c].isReleaseInstalled /\ DeployedOf(store[c]) # {})
            /\ (pc[c] = "idle" /\ Returned(c, "InstallRelease", "nil")) =>
                  \E m \in {Render(sp) : sp \in Specs} : store[c] = {Rel(1, DEPLOYED, m)}

\* C7: an install succeeded after an earlier one had left its failed version behind
C7_Witness ==
    \E c \in CRs : /\ leftFailed[c]
                   /\ pc[c] = "idle"
                   /\ Returned(c, "InstallRelease", "nil")
                   /\ DeployedOf(store[c]) # {}

\* C8: whenever no reconcile of a CR is in flight, at most one version of its
\* release is DEPLOYED.
C8_SingleDeployed ==
    \A c \in CRs : pc[c] = "idle" => Cardinality(DeployedOf(store[c])) <= 1

\* C9: right after Sync returned success every stored version of the release is
\* DEPLOYED, and a not-found answer of History or Delete does not fail Sync.
C9_SyncLeavesOnlyDeployed ==
    \A c \in CRs :
        /\ pc[c] \in {"prepare", "uninstall"} =>
              (Returned(c, "Sync", "nil") /\ \A r \in store[c] : r.code = DEPLOYED)
        /\ (Returned(c, "History", "notfound") \/ Returned(c, "Delete", "notfound")) =>
              Returned(c, "Sync", "nil")

\* C9: Sync succeeded although a Delete answered not found
C9_Witness ==
    \E c \in CRs : /\ pc[c] \in {"prepare", "uninstall"}
                   /\ Returned(c, "Delete", "notfound")
                   /\ Returned(c, "Sync", "nil")

\* C10: Sync calls Create exactly when status.Release is set and Get reports the
\* release as missing; a failed Create makes Sync return the error.
C10_CreateOnlyWhenMissing ==
    \A c \in CRs :
        /\ Invoked(c, "Create") <=> Returned(c, "Get", "notfound")
        /\ Returned(c, "Create", "error") => Returned(c, "Sync", "error")

\* C11: when PrepareRelease finds a deployed release whose manifest differs from
\* the one the spec renders, the reconcile goes on to UpdateRelease; when that
\* succeeds the only DEPLOYED version is the previous one plus one, and a
\* successful status write records it with the success phase and reason.
C11_SpecUpdate ==
    [][\A c \in CRs :
        /\ (/\ pc[c] = "prepare" /\ pc'[c] \notin {"prepare", "idle"}
            /\ DeployedOf(store[c]) # {}
            /\ Deployed(store[c]).manifest # Render(o[c].spec)) => pc'[c] = "update"
        /\ (pc[c] = "update" /\ Returned(c, "UpdateRelease", "nil")') =>
              LET new == Rel(mgr[c].deployedRelease.version + 1, DEPLOYED, Render(o[c].spec))
              IN /\ DeployedOf(store'[c]) = {new}
                 /\ Returned(c, "updateResource", "nil")' =>
                       cr'[c].status = [phase |-> PhaseApplied, reason |-> ReasonApplySuccessful,
                                        release |-> new]
      ]_vars

\* C12: when ReconcileRelease succeeds on the reconcile path every object of the
\* deployed manifest is in the cluster as the manifest has it (created when it
\* was missing, patched when it existed); a Create error other than
\* already-exists or a Patch error makes ReconcileRelease fail, Reconcile
\* returns that error, and the visit touched no object in another way.
C12_DriftRepair ==
    [][\A c \in CRs :
        pc[c] = "reconcile" =>
            LET m == mgr[c].deployedRelease.manifest
            IN /\ Returned(c, "ReconcileRelease", "nil")' =>
                     \A x \in Objects : cluster'[c][x] = m
               /\ (Returned(c, "helper.Create", "error")' \/ Returned(c, "helper.Patch", "error")') =>
                     (Returned(c, "ReconcileRelease", "error")' /\ result'[c].err = "reconcile")
               /\ Returned(c, "ReconcileRelease", "error")' =>
                     \A x \in Objects : cluster'[c][x] \in {cluster[c][x], m}
      ]_vars

\* C12: a reconcile created a missing object and patched an existing one
C12_Witness ==
    \E c \in CRs : /\ pc[c] = "idle"
                   /\ Returned(c, "helper.Create", "nil")
                   /\ Returned(c, "helper.Patch", "nil")
                   /\ Returned(c, "ReconcileRelease", "nil")
                   /\ \A x \in Objects : cluster[c][x] \notin {0, Altered}

\* the release of c is deployed from the CR's present spec: one DEPLOYED version,
\* whose manifest is the one the spec renders
DeployedFromSpec(c) ==
    /\ cr[c].exists /\ ~cr[c].deleted
    /\ Cardinality(DeployedOf(store[c])) = 1
    /\ \A d \in DeployedOf(store[c]) : d.manifest = Render(cr[c].spec)

\* C13: while the release is deployed from the CR's present spec and the spec
\* stays as it is, no step invokes InstallRelease or UpdateRelease or adds a
\* version to the release's history, and a reconcile step changes an object of
\* the cluster only into the manifest's object.
C13_Idempotent ==
    [][\A c \in CRs :
        (DeployedFromSpec(c) /\ cr'[c].spec = cr[c].spec) =>
            /\ pc'[c] \notin {"install", "update"}
            /\ \A r \in store'[c] : r \in store[c]
            /\ (pc[c] # "idle" /\ calls'[c] # calls[c]) =>
                  \A x \in Objects : cluster'[c][x] \in {cluster[c][x], Render(cr[c].spec)}
      ]_vars

\* C14: a status that reports the release as deployed (phase Applied), on the CR
\* or in the copy a reconcile works on, carries a release, and that release is
\* a DEPLOYED one.
C14_AppliedHasRelease ==
    \A c \in CRs :
        /\ cr[c].status.phase = PhaseApplied =>
              (cr[c].status.release # NoRelease /\ cr[c].status.release.code = DEPLOYED)
        /\ o[c].status.phase = PhaseApplied =>
              (o[c].status.release # NoRelease /\ o[c].status.release.code = DEPLOYED)

\* C14: an update succeeded and the status written reports it
C14_Witness ==
    \E c \in CRs : /\ pc[c] = "idle"
                   /\ Returned(c, "UpdateRelease", "nil")
                   /\ Returned(c, "updateResource", "nil")
                   /\ cr[c].status.phase = PhaseApplied
                   /\ cr[c].status.release.version = 2

\* C15: after a reconcile that completed the reconcile path (ReconcileRelease
\* succeeded) the CR's status records no failure: it was written back and a
\* failure recorded by an earlier reconcile is gone.
C15_SuccessClearsFailure ==
    \A c \in CRs :
        (pc[c] = "idle" /\ Returned(c, "ReconcileRelease", "nil")) =>
            /\ Invoked(c, "updateResource")
            /\ cr[c].status.phase # PhaseFailed

ReasonFor(err) ==
    CASE err \in {"sync", "prepare", "reconcile"} -> "ReconcileError"
      [] err = "install" -> "InstallError"
      [] err = "update" -> "UpdateError"
      [] err = "uninstall" -> "UninstallError"

\* C17: when a reconcile returned the error of a failed operation and its
\* status write succeeded, the CR's status carries the reason of that very
\* operation: ReconcileError after Sync, PrepareRelease or ReconcileRelease,
\* InstallError, UpdateError or UninstallError after the respective call.
C17_OwnReasonPerPhase ==
    \A c \in CRs :
        (/\ result[c].ran /\ cr[c].exists
         /\ result[c].err \in {"sync", "prepare", "install", "update", "reconcile", "uninstall"}
         /\ Returned(c, "updateResource", "nil")) =>
            /\ cr[c].status.phase = PhaseFailed
            /\ cr[c].status.reason = ReasonFor(result[c].err)

\* the error Reconcile returns when op is the operation that failed
ErrorOf(op) ==
    CASE op = "Sync" -> "sync"
      [] op = "PrepareRelease" -> "prepare"
      [] op = "InstallRelease" -> "install"
      [] op = "UpdateRelease" -> "update"
      [] op = "ReconcileRelease" -> "reconcile"
      [] op = "UninstallRelease" -> "uninstall"

\* C18: a finished reconcile in which Sync, PrepareRelease, InstallRelease,
\* UpdateRelease, ReconcileRelease or UninstallRelease returned an error
\* returned that operation's error, whether or not the status write that
\* followed succeeded.
C18_OperationErrorReturned ==
    \A c \in CRs :
        \A op \in ManagerOps :
            (result[c].ran /\ Returned(c, op, "error")) =>
                /\ result[c].err = ErrorOf(op)
                /\ Invoked(c, "updateResource")

\* C18: an operation failed, the status write failed too, and the operation's
\* error was returned
C18_Witness ==
    \E c \in CRs :
        /\ result[c].ran
        /\ Returned(c, "InstallRelease", "error")
        /\ Returned(c, "updateResource", "error")
        /\ result[c].err = "install"

\* C19: every step of a reconcile whose fetched CR is deleted and does not
\* carry the finalizer leaves the release store and the CR as they are and does
\* not call UninstallRelease, and the reconcile returns success without requeue.
C19_DeletedWithoutFinalizerNoEffect ==
    [][\A c \in CRs :
          (/\ pc[c] # "idle" /\ pc'[c] # pc[c]
           /\ o[c].deleted /\ ~contains(o[c].finalizers, finalizer)) =>
              /\ store'[c] = store[c]
              /\ cr'[c] = cr[c]
              /\ ~\E i \in 1..Len(calls'[c]) : calls'[c][i].op = "UninstallRelease"
              /\ pc'[c] = "idle" => /\ result'[c].err = "nil"
                                   /\ ~result'[c].requeueAfter]_vars

\* C19 (amended): the same, for the reconciles whose manager.Sync did not
\* fail: Sync is the only operation called, the release store and the CR are
\* left as they are, and the reconcile returns success without requeue.
C19_NoEffectWhenSyncSucceeds ==
    [][\A c \in CRs :
          (/\ pc[c] # "idle" /\ pc'[c] # pc[c]
           /\ o[c].deleted /\ ~contains(o[c].finalizers, finalizer)
           /\ ~\E i \in 1..Len(calls'[c]) : calls'[c][i] = Call("Sync", "error")) =>
              /\ store'[c] = store[c]
              /\ cr'[c] = cr[c]
              /\ cluster'[c] = cluster[c]
              /\ \A i \in 1..Len(calls'[c]) :
                    calls'[c][i].op \notin (ManagerOps \ {"Sync"}) \cup {"updateResource"}
              /\ pc'[c] = "idle" => /\ result'[c].err = "nil"
                                   /\ ~result'[c].requeueAfter]_vars

\* C19: a reconcile of a deleted CR without the finalizer has finished after
\* a successful Sync
C19_Witness ==
    \E c \in CRs :
        /\ cr[c].exists /\ cr[c].deleted /\ ~HasFinalizer(c)
        /\ pc[c] = "idle" /\ result[c].ran /\ result[c].err = "nil"
        /\ Returned(c, "Sync", "nil")
        /\ ~Invoked(c, "PrepareRelease")

\* the release store an uninterrupted run ends with: the one DEPLOYED version
\* rendered from the CR's spec and nothing else
Converged(c) ==
    \E r \in store[c] : /\ store[c] = {r}
                        /\ r.code = DEPLOYED
                        /\ r.manifest = Render(cr[c].spec)

\* C20: under fair reconciles and finitely many failures and restarts, whatever
\* point a reconcile was cut off at, (1) a live CR that carries the finalizer
\* eventually has exactly the release of its spec stored (or is deleted), and
\* (2) a deleted CR whose release is already purged but which still carries the
\* finalizer eventually loses it.
C20_CrashConverges ==
    \A c \in CRs :
        /\ (HasFinalizer(c) /\ ~cr[c].deleted) ~> (cr[c].deleted \/ Converged(c))
        /\ (HasFinalizer(c) /\ cr[c].deleted /\ store[c] = {}) ~> ~HasFinalizer(c)

\* C21: a reconcile that finds its CR gone, or whose fetch of the CR fails,
\* returns at once: success without requeue when the CR is gone, the fetch
\* error otherwise; it calls nothing and writes neither the release store, nor
\* the cluster objects, nor the CR.
C21_FetchFailureWritesNothing ==
    [][\A c \in CRs :
          (/\ pc[c] = "idle" /\ result'[c].ran
           /\ result'[c] # result[c] \/ calls'[c] # calls[c]
           /\ ~cr[c].exists \/ result'[c].err = "get") =>
              /\ store' = store /\ cluster' = cluster /\ cr' = cr
              /\ pc'[c] = "idle" /\ calls'[c] = <<>>
              /\ ~result'[c].requeueAfter
              /\ result'[c].err = (IF cr[c].exists THEN "get" ELSE "nil")]_vars

\* C21: a reconcile found that its CR, deleted meanwhile, is gone
C21_Witness ==
    \E c \in active : /\ ~cr[c].exists
                   /\ pc[c] = "idle" /\ result[c].ran /\ result[c].err = "nil"
                   /\ calls[c] = <<>>

\* C22: the release name computed for a CR is the one computed for it before
\* an edit that left name and uid alone; for a uid of UUID form it is the name,
\* "-", and the lower-case base36 text of the UUID's bytes; for any other uid it
\* is the name, "-", and the uid without its dashes.
C22_ReleaseNameOfNameAndUid ==
    names # NoNames =>
        /\ names[1] = GetReleaseName(objA)
        /\ names[1] = objA.name \o <<"-">> \o
                (IF Parse(objA.uid).nil THEN Replace(objA.uid, "-")
                 ELSE ToLower(EncodeBytes(Parse(objA.uid).bytes)))

\* C23: two CRs with different uids are given different release names, whether
\* or not their names are equal and whether or not the uids have the UUID form.
C23_ReleaseNamesUnique ==
    (names # NoNames /\ objA.uid # objB.uid) => names[1] # names[2]

\* the non-empty documents of a file, in the file's order
NonEmpty(docs) == SelectSeq(docs, LAMBDA d : d.kind # "empty")

\* the documents of an output file: every second element, the others being
\* separators
Emitted(content) == [i \in 1..(Len(content) + 1) \div 2 |-> content[2 * i - 1]]

\* C24: every document of every file of the returned map carries exactly the
\* configured owner references, whatever owner references the template gave it,
\* and every non-empty document of such a file is among them.
C24_EveryDocumentOwned ==
    (renderOut.done /\ ~renderOut.nil) =>
        \A f \in DOMAIN renderOut.files :
            /\ \A i \in 1..Len(Emitted(renderOut.files[f])) :
                  Emitted(renderOut.files[f])[i].owners = refs
            /\ \A i \in 1..Len(NonEmpty(rendered[f])) :
                  \E k \in 1..Len(Emitted(renderOut.files[f])) :
                      Emitted(renderOut.files[f])[k] = [NonEmpty(rendered[f])[i] EXCEPT !.owners = refs]

\* C24: a document whose template rendered owner references of its own was emitted
C24_Witness ==
    /\ renderOut.done /\ ~renderOut.nil
    /\ \E i \in 1..Len(rendered[Template]) :
          rendered[Template][i] = Document("object", 1, TemplateOwners)
    /\ Len(NonEmpty(rendered[Template])) = MaxDocs
    /\ Template \in DOMAIN renderOut.files

\* the .yaml files of the wrapped engine's output
YamlFiles == {f \in FileNames : HasSuffix(f, ".yaml")}

\* C25: the returned map holds exactly the .yaml files with at least one
\* non-empty document; files with another suffix (whatever they contain) and
\* .yaml files without a non-empty document are left out, and when no document
\* of a .yaml file is broken and the wrapped engine succeeded, a map is returned
\* without error.
C25_ExactlyTheNonEmptyYamlFiles ==
    renderOut.done =>
        /\ ~renderOut.nil =>
              DOMAIN renderOut.files = {f \in YamlFiles : NonEmpty(rendered[f]) # <<>>}
        /\ (/\ ~engineErr
            /\ \A f \in YamlFiles : \A i \in 1..Len(rendered[f]) :
                    rendered[f][i].kind \in {"empty", "object"}) =>
               ~renderOut.nil /\ renderOut.err = "none"

\* C25: a map was returned for a chart with an empty .yaml file, a .yaml file
\* with an object, and a file of another suffix that is no YAML
C25_Witness ==
    /\ renderOut.done /\ ~renderOut.nil
    /\ rendered[Template2] = <<EmptyDocument>>
    /\ rendered[Notes] = <<Document("unparsable", 0, NoOwners)>>
    /\ \E i \in 1..Len(rendered[Template]) : rendered[Template][i].kind = "object"
    /\ \E i \in 1..Len(rendered[Template]) : rendered[Template][i].kind = "empty"

\* C26: the output of a .yaml file of a returned map consists of the file's
\* non-empty documents, as many as the input has and in the input's order, each
\* followed by the separator.
C26_DocumentsInOrder ==
    (renderOut.done /\ ~renderOut.nil) =>
        \A f \in DOMAIN renderOut.files :
            /\ Len(renderOut.files[f]) = 2 * Len(NonEmpty(rendered[f]))
            /\ \A i \in 1..Len(NonEmpty(rendered[f])) :
                  /\ renderOut.files[f][2 * i - 1].id = NonEmpty(rendered[f])[i].id
                  /\ renderOut.files[f][2 * i] = documentSeparator

\* the .yaml files with a document that does not parse or convert
BrokenFiles ==
    {f \in YamlFiles : \E i \in 1..Len(rendered[f]) :
                           rendered[f][i].kind \in {"unparsable", "unconvertible"}}

\* C27: when the wrapped engine fails or a document of a .yaml file is broken,
\* Render returns an error and no map at all, and the error of a broken document
\* names a file that holds one.
C27_AllOrNothing ==
    (renderOut.done /\ (engineErr \/ BrokenFiles # {})) =>
        /\ renderOut.nil /\ renderOut.files = <<>>
        /\ renderOut.err # "none"
        /\ ~engineErr => renderOut.file \in BrokenFiles

\* ---------------------------------------------------------------------------
\* C28 (as stated): loading the watches file either returns a map with exactly
\* one entry per listed (group, version, kind) or fails and returns no map; it
\* fails with "duplicate GVK" whenever one (group, version, kind) is listed
\* twice, and fails when a binding has an empty version, an empty kind or a
\* path that is not a chart directory; an empty group is no fault.
Listed(ws) == {GroupVersionKind(ws[i]) : i \in DOMAIN ws}
ListedTwice(ws) == \E i, j \in DOMAIN ws : i # j /\ GroupVersionKind(ws[i]) = GroupVersionKind(ws[j])
BadBinding(w) == w.Version = "" \/ w.Kind = "" \/ w.Chart \notin ChartDirs
BadFile(file) ==
    \/ ~file.readable
    \/ ~file.parsable
    \/ \E i \in DOMAIN file.watches : BadBinding(file.watches[i])

ReleaseOps == {"InstallRelease", "UpdateRelease", "ReconcileRelease", "UninstallRelease"}

ReleaseCalls(trace) == {i \in 1..Len(trace) : trace[i].op \in ReleaseOps}

\* this step of c's reconcile invokes op
Invokes(c, op) ==
    /\ ~Invoked(c, op)
    /\ \E i \in 1..Len(calls'[c]) : calls'[c][i].op = op

FetchedWithFinalizer(c) == contains(o[c].finalizers, finalizer)

UpdateRequired(c) == ManifestDiffers(Deployed(store[c]), o[c].spec)

C30_PhaseSelection ==
    [][\A c \in CRs :
          /\ Cardinality(ReleaseCalls(calls'[c])) <= 1
          /\ Invokes(c, "UninstallRelease") =>
                 (o[c].deleted /\ FetchedWithFinalizer(c))
          /\ Invokes(c, "InstallRelease") =>
                 (~o[c].deleted /\ FetchedWithFinalizer(c) /\ DeployedOf(store[c]) = {})
          /\ Invokes(c, "UpdateRelease") =>
                 (~o[c].deleted /\ DeployedOf(store[c]) # {} /\ UpdateRequired(c))
          /\ Invokes(c, "ReconcileRelease") =>
                 (~o[c].deleted /\ DeployedOf(store[c]) # {} /\ ~UpdateRequired(c))
      ]_vars

C30_Witness ==
    \E c \in CRs :
        /\ pc[c] = "idle" /\ result[c].ran
        /\ Returned(c, "UpdateRelease", "nil")
        /\ Cardinality(ReleaseCalls(calls[c])) = 1

\* ---------------------------------------------------------------------------
\* C31: within one Reconcile every PrepareRelease, InstallRelease,
\* UpdateRelease, ReconcileRelease and UninstallRelease is preceded by a Sync
\* that returned nil; when Sync fails none of them is invoked in that
\* reconcile, the status write follows at once, a successful write leaves the
\* failure status on the CR, and the reconcile returns the Sync error.
AfterSync == {"PrepareRelease"} \cup ReleaseOps

C31_SyncFirst ==
    \A c \in CRs :
        /\ \A i \in 1..Len(calls[c]) :
               calls[c][i].op \in AfterSync =>
                   \E j \in 1..(i - 1) : calls[c][j] = Call("Sync", "nil")
        /\ Returned(c, "Sync", "error") =>
               /\ \A i \in 1..Len(calls[c]) : calls[c][i].op \notin AfterSync
               /\ pc[c] = "idle" /\ result[c].ran /\ result[c].err = "sync"
               /\ calls[c][Len(calls[c])].op = "updateResource"
               /\ calls[c][Len(calls[c]) - 1] = Call("Sync", "error")
               /\ (Returned(c, "updateResource", "nil") /\ cr[c].exists) =>
                      (cr[c].status.phase = PhaseFailed /\ cr[c].status.reason = ReasonApplyFailed)

C31_Witness ==
    \E c \in CRs :
        /\ Returned(c, "Sync", "error") /\ Returned(c, "updateResource", "nil")
        /\ result[c].err = "sync"
        /\ cr[c].exists /\ cr[c].status.phase = PhaseFailed

\* ---------------------------------------------------------------------------
\* C32: when tiller's install call returns an error, InstallRelease issues an
\* uninstall with Purge exactly when a partial release was recorded in the
\* store; it returns no release and the install error, or an error reporting
\* both when the uninstall it issued fails; nothing is uninstalled when no
\* partial release was recorded.
TillerCalled(op) == \E i \in 1..Len(reply.tiller) : reply.tiller[i].op = op

TillerAnswered(op, out) == \E i \in 1..Len(reply.tiller) : reply.tiller[i] = Call(op, out)

InstallFailed == reply.op = "InstallRelease" /\ ~TillerAnswered("InstallRelease", "ok")

PartialInstallRecorded == TillerAnswered("InstallRelease", "recorded")

C32_InstallCompensation ==
    InstallFailed =>
        /\ TillerCalled("UninstallRelease") <=> PartialInstallRecorded
        /\ reply.release = NoRelease
        /\ reply.err = (IF TillerCalled("UninstallRelease") /\ ~TillerAnswered("UninstallRelease", "ok")
                        THEN "failed to roll back failed installation" ELSE "install")

\* ---------------------------------------------------------------------------
\* C33 (as stated): when tiller's update call fails and recorded a partial
\* release, UpdateRelease issues a rollback with Force and returns the update
\* error and no release, and the release's DEPLOYED version is then the
\* manifest that was deployed before, also when Sync has deleted the superseded
\* versions; on success it returns the pair (previously deployed release, newly
\* deployed release).
UpdateFailedRecorded == reply.op = "UpdateRelease" /\ TillerAnswered("UpdateRelease", "recorded")

UpdateSucceeded == reply.op = "UpdateRelease" /\ TillerAnswered("UpdateRelease", "ok")

PreviousStillDeployed ==
    /\ DeployedOf(history) # {}
    /\ \A d \in DeployedOf(history) : d.manifest = Deployed(reply.before).manifest

ReturnsThePair ==
    /\ reply.err = "nil"
    /\ reply.previous = Deployed(reply.before)
    /\ DeployedOf(history) = {reply.release}
    /\ reply.release.version = LastVersion(reply.before) + 1

UninstallSucceeded ==
    reply.op = "UninstallRelease" /\ TillerAnswered("UninstallRelease", "ok") /\ reply.err = "nil"

UninstallsNext == reply'.op = "UninstallRelease" /\ reply'.tiller[1] = Call("History", "ok")

NotFoundNext == reply'.err = "ErrNotFound" /\ Len(reply'.tiller) = 1

BeforePrepare(c) == pc[c] \in {"idle", "sync", "prepare", "uninstall"}

C35_ManagerSignals ==
    \A c \in CRs :
        IF BeforePrepare(c)
        THEN ~mgr[c].isReleaseInstalled /\ ~mgr[c].isUpdateRequired /\ mgr[c].deployedRelease = NoRelease
        ELSE /\ mgr[c].isReleaseInstalled <=> DeployedOf(store[c]) # {}
             /\ mgr[c].isUpdateRequired <=>
                    (DeployedOf(store[c]) # {} /\ Deployed(store[c]).manifest # Render(o[c].spec))
             /\ mgr[c].isUpdateRequired => mgr[c].isReleaseInstalled
             /\ mgr[c].deployedRelease = Deployed(store[c])

\* a later reconcile of a CR whose earlier reconcile installed the release has
\* prepared its own manager and found an update is required
C35_Witness ==
    \E c \in CRs :
        /\ pc[c] = "update"
        /\ mgr[c].isReleaseInstalled /\ mgr[c].isUpdateRequired
        /\ Invoked(c, "PrepareRelease")

\* ---------------------------------------------------------------------------
\* C36: when the reconciles of two different CRs run at the same time, in any
\* interleaving, each changes only the versions stored under its own release
\* name and leaves those under the other CR's release name alone, and once
\* both have returned the release store and both statuses are what running the
\* two reconciles one after the other, in one of the two orders, gives.
Outcome(w) == [shared |-> w.shared, status |-> [x \in Jobs |-> w.job[x].status]]

BothDone == \A x \in Jobs : world.job[x].pc = "done"

Other(x) == IF x = "A" THEN "B" ELSE "A"

\* the versions of y's release that a step can tell apart
OwnVersions(w, y) == w.shared[ReleaseNameOf(y)]

C36_Isolation ==
    /\ \A x \in Jobs :
           (world.job[x].pc = start.job[x].pc /\ world.job[x].status = start.job[x].status)
               => (world.job[Other(x)].pc = "done"
                      => OwnVersions(world, x) = OwnVersions(start, x))
    /\ BothDone => \E first \in Jobs :
                       \E w1 \in {Run(start, first)} :
                           Outcome(world) = Outcome(Run(w1, Other(first)))

DistinctReleaseNames == ReleaseNameOf("A") # ReleaseNameOf("B")

\* the reconcile of c that just returned installed or updated the release in
\* the store and then failed to write the CR's status
StatusWriteLost(c) ==
    /\ pc[c] = "idle" /\ cr[c].exists /\ ~cr[c].deleted
    /\ Returned(c, "InstallRelease", "nil") \/ Returned(c, "UpdateRelease", "nil")
    /\ Returned(c, "updateResource", "error")

\* the CR's status records the release that is DEPLOYED in the store
StatusReportsDeployed(c) == DeployedOf(store[c]) = {cr[c].status.release}

\* C37: under fair reconciles, once InstallRelease or UpdateRelease succeeded
\* in the release store and the following write of the CR's status failed,
\* the status eventually records the release that is DEPLOYED in the store
\* (unless the CR is deleted meanwhile).
C37_StatusConverges ==
    \A c \in CRs :
        StatusWriteLost(c) ~> (~cr[c].exists \/ cr[c].deleted \/ StatusReportsDeployed(c))

\* how often the operator's finalizer occurs in l
Occurrences(l) == Cardinality({i \in 1..Len(l) : l[i] = finalizer})

\* the finalizers of l that are not the operator's, in their order
ForeignFinalizers(l) == SelectSeq(l, LAMBDA f : f # finalizer)

Finished(t) == t < loop.ticks \/ loop.pc = "wait"

\* a tick whose listing failed sent nothing, and the loop waits for the next tick
FailedTickSendsNothing ==
    /\ \A t \in 1..Len(loop.log) : ~loop.log[t].listed => loop.log[t].sent = <<>>
    /\ (loop.log # <<>> /\ ~loop.log[Len(loop.log)].listed) => loop.pc = "wait"

\* a tick whose listing succeeded sent one event per listed CR, in list order
OneEventPerListedCR ==
    \A t \in 1..Len(loop.log) :
        (loop.log[t].listed /\ Finished(t)) =>
            /\ Len(loop.log[t].sent) = Len(loop.log[t].Items)
            /\ \A k \in 1..Len(loop.log[t].sent) : loop.log[t].sent[k].item = loop.log[t].Items[k]

\* no two events of one tick point at the same object
EventsOfDistinctObjects ==
    \A t \in 1..Len(loop.log) :
        \A j, k \in 1..Len(loop.log[t].sent) :
            j # k => loop.log[t].sent[j].Object # loop.log[t].sent[k].Object

\* the consumer found in every event the CR the event was sent for
ReceivedIdentifiesItsCR ==
    \A k \in 1..Len(received) : received[k].name = received[k].item

\* C39: every tick whose listing succeeds sends exactly one event per listed
\* CR, the events of one tick refer to different objects and the event a
\* consumer receives for a CR identifies that CR; a tick whose listing fails
\* sends nothing and the loop goes on with the next tick.
C39_PeriodicLoop ==
    /\ OneEventPerListedCR
    /\ EventsOfDistinctObjects
    /\ ReceivedIdentifiesItsCR
    /\ FailedTickSendsNothing

====
